---------------------------- MODULE Spec2Model ----------------------------
(***************************************************************************)
(* Forecast calibration and ensemble pipeline of the solar-forecast        *)
(* python worker (python-worker/app/modules/forecast).                     *)
(*                                                                         *)
(* A forecast series (a pandas DataFrame) is a function from column names  *)
(* to columns; a column is a record [dtype, vals] whose vals is the        *)
(* sequence of the rows' values.  Power values are integers (kW); NaN is   *)
(* modelled only where the Validation Gate counts missing values.          *)
(*                                                                         *)
(* Each component is checked under its own specification:                  *)
(*   SpecCE  the Capacity Enforcer (_apply_capacity_constraints)           *)
(*   SpecQB  the Quantile Band Builder (predict_with_uncertainty)          *)
(*   SpecUF  the pipeline (run_unified_forecast)                           *)
(*   SpecTK  a forecast task (ForecastService.process_forecast_task)       *)
(*   SpecEC  the Ensemble Combiner (create_ensemble_forecast)              *)
(*   SpecWS  the Weight Selector (_calculate_optimal_weights)              *)
(*   SpecVG  the Validation Gate (validate_forecast_comprehensive)         *)
(*   SpecDT  two runs of one stage on the same inputs                      *)
(*   SpecRS  the Resolution Resampler (utils/time_resolution.py)           *)
(*   SpecTE  the stages of the Transition Enhancer, one at a time          *)
(*   SpecPC  the Performance Calibrator (apply_performance_adjustments)    *)
(***************************************************************************)
EXTENDS Integers, Sequences, FiniteSets, TLC

VARIABLES
    ceCap,      \* plant_capacity argument of _apply_capacity_constraints
    ceIn,       \* the forecast DataFrame first handed to the enforcer
    ceOut,      \* the DataFrame returned by the latest call
    ceFirst,    \* the DataFrame returned by the first call
    ceCalls,    \* number of calls made so far
    ceRaised,   \* the latest call raised (KeyError) instead of returning
    ceLog,      \* log records written by the calls so far
    qbArgs,     \* arguments of predict_with_uncertainty
    qbOut,      \* the DataFrame it returned (empty before the call)
    qbPc,       \* "call" before, "returned" after
    ufArgs,     \* arguments of run_unified_forecast and what it reads
    ufOut,      \* what the call produced, stage by stage
    ufPc,       \* "call" before, "returned" or "raised" after
    tkArgs,     \* what the task can read: location, weather, models
    tkTask,     \* the task's record in the task manager
    tkLocals,   \* local variables of process_forecast_task
    tkPc,       \* position of process_forecast_task
    ecArgs,     \* arguments of create_ensemble_forecast
    ecOut,      \* the frame it returned, or the error it raised
    ecPc,       \* "call" before, "returned" or "raised" after
    wsArgs,     \* weather_data handed to _calculate_optimal_weights
    wsOut,      \* the weights it returned
    wsPc,       \* "call" before, "returned" after
    vgArgs,     \* arguments of validate_forecast_comprehensive
    vgOut,      \* the report it returned
    vgPc,       \* "call" before, "returned" after
    dtClock,    \* the wall clock, in days
    dtArgs,     \* a stage and the inputs declared for it
    dtOuts,     \* what the runs of the stage returned, in order
    rsArgs,     \* which resampler is called, and the series handed to it
    rsOut,      \* the series it returned
    rsPc,       \* "call" before, "returned" after
    teArgs,     \* a stage of the Transition Enhancer and its arguments
    teOut,      \* the frame the stage returned
    tePc,       \* "call" before, "returned" after
    pcArgs,     \* arguments of apply_performance_adjustments
    pcOut,      \* the frame it returned
    pcPc        \* "call" before, "returned" after

ceVars == <<ceCap, ceIn, ceOut, ceFirst, ceCalls, ceRaised, ceLog>>

qbVars == <<qbArgs, qbOut, qbPc>>

ufVars == <<ufArgs, ufOut, ufPc>>

tkVars == <<tkArgs, tkTask, tkLocals, tkPc>>

ecVars == <<ecArgs, ecOut, ecPc>>

wsVars == <<wsArgs, wsOut, wsPc>>

vgVars == <<vgArgs, vgOut, vgPc>>

dtVars == <<dtClock, dtArgs, dtOuts>>

rsVars == <<rsArgs, rsOut, rsPc>>

teVars == <<teArgs, teOut, tePc>>

pcVars == <<pcArgs, pcOut, pcPc>>

\* the components of the pipeline and of the task, and the stages checked
\* on their own
earlyVars == <<ceVars, qbVars, ufVars, tkVars>>

lateVars == <<ecVars, wsVars, vgVars, dtVars>>

lastVars == <<rsVars, teVars, pcVars>>

vars == <<earlyVars, lateVars, lastVars>>

\* a component that the specification at hand does not run
IdleCE ==
    /\ ceCap = 0 /\ ceIn = <<>> /\ ceOut = <<>> /\ ceFirst = <<>>
    /\ ceCalls = 0 /\ ceRaised = FALSE /\ ceLog = <<>>

IdleQB == qbArgs = <<>> /\ qbOut = <<>> /\ qbPc = "idle"

IdleUF == ufArgs = <<>> /\ ufOut = <<>> /\ ufPc = "idle"

IdleTK == tkArgs = <<>> /\ tkTask = <<>> /\ tkLocals = <<>> /\ tkPc = "idle"

IdleEC == ecArgs = <<>> /\ ecOut = <<>> /\ ecPc = "idle"

IdleWS == wsArgs = <<>> /\ wsOut = <<>> /\ wsPc = "idle"

IdleVG == vgArgs = <<>> /\ vgOut = <<>> /\ vgPc = "idle"

IdleDT == dtClock = 0 /\ dtArgs = <<>> /\ dtOuts = <<>>

IdleEarly == IdleCE /\ IdleQB /\ IdleUF /\ IdleTK

IdleLate == IdleEC /\ IdleWS /\ IdleVG /\ IdleDT

IdleRS == rsArgs = <<>> /\ rsOut = <<>> /\ rsPc = "idle"

IdleTE == teArgs = <<>> /\ teOut = <<>> /\ tePc = "idle"

IdlePC == pcArgs = <<>> /\ pcOut = <<>> /\ pcPc = "idle"

IdleLast == IdleRS /\ IdleTE /\ IdlePC

-----------------------------------------------------------------------------
(* Bounds of the model *)

\* largest number of rows of a series handed to the Capacity Enforcer
MaxRowsCE == 2

\* raw regressor outputs given to the Quantile Band Builder are
\* RawBaseQB + k * RawStepQB for k in 0..MaxRawQB
MaxRawQB == 2

\* the noon irradiance given to the pipeline is 1000 * k W/m2 for k in
\* 1..MaxGhiUF
MaxGhiUF == 1

\* the locations of the forecast tasks have capacities of k * 0.5 MW for k
\* in 1..MaxCapacityTK
MaxCapacityTK == 2

\* rows of the series handed to the Ensemble Combiner
MaxRowsEC == 2

\* rows of the weather handed to the Weight Selector
MaxRowsWS == 2

-----------------------------------------------------------------------------
(* Helpers shared by the components *)

Min(a, b) == IF a <= b THEN a ELSE b

Max(a, b) == IF a >= b THEN a ELSE b

\* a clip that pulls an overage only halfway back to the upper limit
ClipSoft(v, lower, upper) ==
    IF v < lower THEN lower
    ELSE IF v > upper THEN upper + (v - upper) \div 2
    ELSE v

\* pandas Series.clip(lower, upper) on one value
Clip(v, lower, upper) ==
    IF v < lower THEN lower ELSE IF v > upper THEN upper ELSE v

Rows(frame) ==
    IF DOMAIN frame = {} THEN 0
    ELSE LET c == CHOOSE c \in DOMAIN frame : TRUE IN Len(frame[c].vals)

-----------------------------------------------------------------------------
(* Capacity Enforcer: unified_forecast.py, _apply_capacity_constraints *)

\* dtypes the clipping loop accepts (line 590)
ClippedDtypes == {"float64", "float32", "int64", "int32"}

\* the clipping loop with int64 missing from its dtype list
ConstraintClippingFloatOnly(forecast, plant_capacity) ==
    [col \in DOMAIN forecast |->
        IF forecast[col].dtype \in {"float64", "float32"}
        THEN [dtype |-> forecast[col].dtype,
              vals  |-> [i \in 1..Len(forecast[col].vals) |->
                            Clip(forecast[col].vals[i], 0, plant_capacity)]]
        ELSE forecast[col]]

\* for col in columns: if dtype in [...]: col = col.clip(0, plant_capacity)
ConstraintClipping(forecast, plant_capacity) ==
    [col \in DOMAIN forecast |->
        IF forecast[col].dtype \in ClippedDtypes
        THEN [dtype |-> forecast[col].dtype,
              vals  |-> [i \in 1..Len(forecast[col].vals) |->
                            Clip(forecast[col].vals[i], 0, plant_capacity)]]
        ELSE forecast[col]]

\* violations = (constrained_forecast > plant_capacity).any(axis=1).sum()
Violations(constrained, plant_capacity) ==
    Cardinality({i \in 1..Rows(constrained) :
        \E col \in DOMAIN constrained : constrained[col].vals[i] > plant_capacity})

\* The whole function.  It returns the clipped copy, unless the lookup of
\* constrained_forecast['prediction'] for the log line raises KeyError.
apply_capacity_constraints(forecast, plant_capacity) ==
    LET constrained == ConstraintClipping(forecast, plant_capacity)
        violations  == Violations(constrained, plant_capacity)
    IN  [raised |-> "prediction" \notin DOMAIN constrained,
         frame  |-> constrained,
         log    |-> IF violations > 0 THEN <<"warning">> ELSE <<>>]

-----------------------------------------------------------------------------
(* Inputs of the Capacity Enforcer *)

CapacitiesCE == {4, 10}

\* adversarial raw values: negative, zero, inside, just above, 10x capacity
ValuesCE(cap) == {0 - cap, 0, cap \div 2, cap + 1, 10 * cap}

NumericColumnsCE == {"prediction", "p90"}

\* the dtype each numeric column is given
DtypeCE(col) == IF col = "prediction" THEN "float64" ELSE "int64"

\* a non-numeric (boolean) column, which the dtype test leaves alone
FlagColumnsCE == {"is_night"}

\* the values of one column: any sequence of n values if the series carries
\* the column, nothing otherwise
ColumnValuesCE(col, cols, vals, n) ==
    IF col \in cols THEN [1..n -> vals] ELSE {<<>>}

FrameCE(cols, pv, qv, fv) ==
    [col \in cols |->
        IF col \in FlagColumnsCE THEN [dtype |-> "bool", vals |-> fv]
        ELSE [dtype |-> DtypeCE(col), vals |-> IF col = "prediction" THEN pv ELSE qv]]

InitCE ==
    /\ ceCap \in CapacitiesCE
    /\ \E n \in 1..MaxRowsCE :
       \E cols \in (SUBSET (NumericColumnsCE \cup FlagColumnsCE)) \ {{}} :
       \E pv \in ColumnValuesCE("prediction", cols, ValuesCE(ceCap), n) :
       \E qv \in ColumnValuesCE("p90", cols, ValuesCE(ceCap), n) :
       \E fv \in ColumnValuesCE("is_night", cols, {0, 1}, n) :
          ceIn = FrameCE(cols, pv, qv, fv)
    /\ ceOut = ceIn
    /\ ceFirst = ceIn
    /\ ceCalls = 0
    /\ ceRaised = FALSE
    /\ ceLog = <<>>
    /\ IdleQB /\ IdleUF /\ IdleTK /\ IdleLate /\ IdleLast

\* one call of _apply_capacity_constraints on the series at hand
Enforce ==
    /\ ceCalls < 2
    /\ ~ceRaised
    /\ LET r == apply_capacity_constraints(ceOut, ceCap) IN
        /\ ceRaised' = r.raised
        /\ ceLog' = ceLog \o r.log
        /\ ceOut' = IF r.raised THEN ceOut ELSE r.frame
        /\ ceFirst' = IF ceCalls = 0 /\ ~r.raised THEN r.frame ELSE ceFirst
    /\ ceCalls' = ceCalls + 1
    /\ UNCHANGED <<ceCap, ceIn, qbVars, ufVars, tkVars, lateVars, lastVars>>

NextCE == Enforce

SpecCE == InitCE /\ [][NextCE]_vars

-----------------------------------------------------------------------------
(* Quantile Band Builder: forecast_models.py, predict_with_uncertainty.    *)
(* Its frames map a column name to the sequence of the rows' values.       *)
(* Power is counted in hundredths of a kW, so that the 0.95 and 1.1        *)
(* factors of the physics ceiling stay exact on the inputs below.          *)

KW(x) == x * 100

\* the levels the callers train and load models for (unified_forecast.py 366)
QuantileLevels == {10, 25, 50, 75, 90}

\* col_name = f'p{int(quantile * 100)}'
ColName(level) ==
    CASE level = 10 -> "p10" [] level = 25 -> "p25" [] level = 50 -> "p50"
      [] level = 75 -> "p75" [] level = 90 -> "p90"

\* quantile_cols = ['p10', 'p25', 'p50', 'p75', 'p90']
QuantileCols == <<"p10", "p25", "p50", "p75", "p90">>

\* the columns the physics ceiling is applied to (line 304)
CeilingCols ==
    {"p10", "p25", "p50", "p75", "p90", "prediction",
     "uncertainty_lower", "uncertainty_upper"}

RECURSIVE SumOver(_, _, _)
SumOver(frame, cols, i) ==
    IF cols = {} THEN 0
    ELSE LET c == CHOOSE c \in cols : TRUE
         IN  frame[c][i] + SumOver(frame, cols \ {c}, i)

\* DataFrame.mean(axis=1), .min(axis=1), .max(axis=1) in row i
RowMean(frame, i) == SumOver(frame, DOMAIN frame, i) \div Cardinality(DOMAIN frame)

RowMin(frame, i) ==
    CHOOSE v \in {frame[c][i] : c \in DOMAIN frame} :
        \A c \in DOMAIN frame : v <= frame[c][i]

RowMax(frame, i) ==
    CHOOSE v \in {frame[c][i] : c \in DOMAIN frame} :
        \A c \in DOMAIN frame : v >= frame[c][i]

\* predictions[col] = vals
WithColumn(frame, col, vals) ==
    [c \in DOMAIN frame \cup {col} |-> IF c = col THEN vals ELSE frame[c]]

\* lines 255-260: one column per model, holding model.predict(features)
AssembleQuantiles(models) ==
    [c \in {ColName(l) : l \in DOMAIN models} |->
        LET l == CHOOSE l \in DOMAIN models : ColName(l) = c IN models[l]]

\* lines 262-265: prediction, uncertainty_lower, uncertainty_upper
NamedColumns(predictions, n) ==
    LET p1 == WithColumn(predictions, "prediction",
                  IF "p50" \in DOMAIN predictions THEN predictions["p50"]
                  ELSE [i \in 1..n |-> RowMean(predictions, i)])
        p2 == WithColumn(p1, "uncertainty_lower",
                  IF "p10" \in DOMAIN p1 THEN p1["p10"]
                  ELSE [i \in 1..n |-> RowMin(p1, i)])
    IN  WithColumn(p2, "uncertainty_upper",
                  IF "p90" \in DOMAIN p2 THEN p2["p90"]
                  ELSE [i \in 1..n |-> RowMax(p2, i)])

\* predictions.clip(lower=0)
ClipLower(frame, lower) ==
    [c \in DOMAIN frame |-> [i \in 1..Len(frame[c]) |-> Max(frame[c][i], lower)]]

\* predictions.clip(upper=capacity_kw)
ClipUpper(frame, upper) ==
    [c \in DOMAIN frame |-> [i \in 1..Len(frame[c]) |-> Min(frame[c][i], upper)]]

\* night masking with the test elevation < 0 in place of elevation <= 0
NightMaskingStrict(frame, elevation) ==
    [c \in DOMAIN frame |->
        [i \in 1..Len(frame[c]) |-> IF elevation[i] < 0 THEN 0 ELSE frame[c][i]]]

\* lines 277-278: predictions.loc[elevation <= 0.0] = 0.0
NightMasking(frame, elevation) ==
    [c \in DOMAIN frame |->
        [i \in 1..Len(frame[c]) |-> IF elevation[i] <= 0 THEN 0 ELSE frame[c][i]]]

\* 1000 * sin(radians(elevation)) for the elevations of the model
SinMilli(elevation) ==
    CASE elevation = 30 -> 500 [] elevation = 90 -> 1000 [] OTHER -> 0

\* lines 290-297: the physics-based maximum of one row; cap is
\* (capacity_kw or 870)
PhysicsMax(cap, ghi, elevation) ==
    IF elevation > 0 /\ ghi > 0
    THEN Min((((((cap * ghi) \div 1000) * SinMilli(elevation)) \div 1000) * 11) \div 10,
             (cap * 95) \div 100)
    ELSE 0

\* lines 302-307: a value more than 20% above the row's limit becomes the limit
PhysicsCeiling(frame, limits) ==
    [c \in DOMAIN frame |->
        IF c \in CeilingCols
        THEN [i \in 1..Len(frame[c]) |->
                IF 10 * frame[c][i] > 12 * limits[i] THEN limits[i] ELSE frame[c][i]]
        ELSE frame[c]]

\* existing_cols = [col for col in quantile_cols if col in predictions.columns]
ExistingCols(frame) == SelectSeq(QuantileCols, LAMBDA c : c \in DOMAIN frame)

\* the repair loop lowering the current column to the previous one
RECURSIVE RepairFromMin(_, _, _)
RepairFromMin(frame, cols, k) ==
    IF k > Len(cols) THEN frame
    ELSE RepairFromMin(
            [frame EXCEPT ![cols[k]] =
                [i \in 1..Len(frame[cols[k]]) |->
                    Min(frame[cols[k - 1]][i], frame[cols[k]][i])]],
            cols, k + 1)

\* lines 316-320: for i in range(1, len(existing_cols)):
\*     predictions[curr_col] = predictions[[prev_col, curr_col]].max(axis=1)
RECURSIVE RepairFrom(_, _, _)
RepairFrom(frame, cols, k) ==
    IF k > Len(cols) THEN frame
    ELSE RepairFrom(
            [frame EXCEPT ![cols[k]] =
                [i \in 1..Len(frame[cols[k]]) |->
                    Max(frame[cols[k - 1]][i], frame[cols[k]][i])]],
            cols, k + 1)

MonotonicityRepair(frame) ==
    IF Len(ExistingCols(frame)) > 1 THEN RepairFrom(frame, ExistingCols(frame), 2)
    ELSE frame

\* (capacity_kw or 870)
CapacityOrDefault(args) == IF args.has_capacity THEN args.capacity_kw ELSE KW(870)

\* the function, step by step
predict_with_uncertainty(args) ==
    LET n      == args.rows
        named  == NamedColumns(AssembleQuantiles(args.models), n)
        nonneg == IF args.clip_negative THEN ClipLower(named, 0) ELSE named
        capped == IF args.has_capacity THEN ClipUpper(nonneg, args.capacity_kw)
                  ELSE nonneg
        masked == IF args.has_solar THEN NightMasking(capped, args.elevation)
                  ELSE capped
        limits == [i \in 1..n |->
                      PhysicsMax(CapacityOrDefault(args), args.ghi[i], args.elevation[i])]
        ceiled == IF args.has_solar /\ args.has_ghi THEN PhysicsCeiling(masked, limits)
                  ELSE masked
    IN  MonotonicityRepair(ceiled)

-----------------------------------------------------------------------------
(* Inputs of the Quantile Band Builder *)

\* raw outputs of the regressors: negative, inside and above capacity
RawValuesQB == {KW(1200 * k - 600) : k \in 0..MaxRawQB}

\* below the horizon, on it, and two elevations above it
ElevationsQB == {0 - 3, 0, 30, 90}

GhiQB == {0, 500, 1000}

CapacityQB == KW(1000)

\* every step of the function is element-wise, so series of one row reach
\* every case
RowCountsQB == {1}

InitQB ==
    /\ IdleCE /\ IdleUF /\ IdleTK /\ IdleLate /\ IdleLast
    /\ \E n \in RowCountsQB :
       \E levels \in (SUBSET QuantileLevels) \ {{}} :
       \E models \in [levels -> [1..n -> RawValuesQB]] :
       \E clip_negative \in BOOLEAN, has_capacity \in BOOLEAN :
       \E has_solar \in BOOLEAN, has_ghi \in BOOLEAN :
       \E elevation \in (IF has_solar THEN [1..n -> ElevationsQB] ELSE {<<>>}) :
       \E ghi \in (IF has_ghi THEN [1..n -> GhiQB] ELSE {<<>>}) :
          qbArgs = [rows |-> n, models |-> models,
                    clip_negative |-> clip_negative,
                    has_capacity |-> has_capacity,
                    capacity_kw |-> IF has_capacity THEN CapacityQB ELSE 0,
                    has_solar |-> has_solar, elevation |-> elevation,
                    has_ghi |-> has_ghi, ghi |-> ghi]
    /\ qbOut = <<>>
    /\ qbPc = "call"

\* one call of predict_with_uncertainty
Predict ==
    /\ qbPc = "call"
    /\ qbOut' = predict_with_uncertainty(qbArgs)
    /\ qbPc' = "returned"
    /\ UNCHANGED <<qbArgs, ceVars, ufVars, tkVars, lateVars, lastVars>>

NextQB == Predict

SpecQB == InitQB /\ [][NextQB]_vars

-----------------------------------------------------------------------------
(* Pipeline: unified_forecast.py, run_unified_forecast, with the functions  *)
(* it calls.  Frames map a column name to the sequence of the rows' values. *)
(* Columns in W are counted in whole W, columns in kW in hundredths of a kW, *)
(* columns in MW in tenths of a W; a product with a fractional factor is    *)
(* rounded down to the grid.  Elevations are whole degrees, cloud cover is  *)
(* in percent, ratios and factors are in thousandths.                       *)

\* x / 1000000 from a column in W to one in MW
WattsToMW(x) == x * 10

\* x * 1000 from a column in MW to one in kW
MWToKW(x) == x \div 100

\* x / 1000 from a column in kW to one in MW
KWToMW(x) == x * 100

\* x / 1000 from a column in W to one in kW
WattsToKW(x) == x \div 10

\* dict.get(key, default)
Get(d, key, default) == IF key \in DOMAIN d THEN d[key] ELSE default

\* solar_physics.py 597 and 627: capacity_mw = 0.87, whatever the plant's
\* capacity, and max_power = capacity_mw * 1_000_000 in W
PvlibCapacity == 870000

\* lines 608-610: temp_effect = (1 - 0.004 * (temp_air - 25)).clip(0.7, 1.1)
TempEffect(temp_air) == Clip(1000 - 4 * (temp_air - 25), 700, 1100)

\* lines 619-620: capacity_mw * ghi / 1000 * temp_effect * performance_ratio
DcPowerRaw(ghi, temp_air) ==
    (((((PvlibCapacity * ghi) \div 1000) * TempEffect(temp_air)) \div 1000) * 92) \div 100

\* line 624: ac_power = dc_power * 0.95
AcPowerRaw(ghi, temp_air) == (DcPowerRaw(ghi, temp_air) * 95) \div 100

\* lines 632-634: ac_power[solar_elevation <= -6] = 0
NightZero(power, apparent_elevation) ==
    IF apparent_elevation <= 0 - 6 THEN 0 ELSE power

\* run_forecast(location, system, weather, model='simple'), lines 593-737.
\* solpos is location.get_solarposition(weather.index).
run_pvlib_forecast(weather, solpos) ==
    LET n  == Len(weather["ghi"])
        ac == [i \in 1..n |->
                 NightZero(Clip(AcPowerRaw(weather["ghi"][i], weather["temp_air"][i]),
                                0, PvlibCapacity),
                           solpos["apparent_elevation"][i])]
        dc == [i \in 1..n |->
                 NightZero(Clip(DcPowerRaw(weather["ghi"][i], weather["temp_air"][i]),
                                0, PvlibCapacity),
                           solpos["apparent_elevation"][i])]
    IN  [c \in {"ac_power", "dc_power", "cell_temperature", "effective_irradiance",
                "poa_global", "solar_elevation", "solar_azimuth",
                "ac_power_mw", "dc_power_mw"} |->
            CASE c = "ac_power" -> ac
              [] c = "dc_power" -> dc
              [] c = "cell_temperature" -> weather["temp_air"]
              [] c = "effective_irradiance" -> weather["ghi"]
              [] c = "poa_global" -> weather["ghi"]
              [] c = "solar_elevation" -> solpos["apparent_elevation"]
              [] c = "solar_azimuth" -> solpos["azimuth"]
              [] c = "ac_power_mw" -> [i \in 1..n |-> Max(WattsToMW(ac[i]), 0)]
              [] c = "dc_power_mw" -> [i \in 1..n |-> Max(WattsToMW(dc[i]), 0)]]

-----------------------------------------------------------------------------
(* Transition Enhancer: shoulders_enhancement.py, enhance_forecast_shoulders *)

\* the only columns any stage writes to, and only if the frame has them
EnhancedPowerCols == {"ac_power_kw", "dc_power_kw"}

\* result[col] *= factor (factor in thousandths, one per row) on the columns
\* of cols that the frame has
ScaleColumns(frame, cols, factor) ==
    [c \in DOMAIN frame |->
        IF c \in cols
        THEN [i \in 1..Len(frame[c]) |-> (frame[c][i] * factor[i]) \div 1000]
        ELSE frame[c]]

\* result.loc[mask, col] = 0.0 on the columns of cols that the frame has
ZeroRows(frame, cols, mask) ==
    [c \in DOMAIN frame |->
        IF c \in cols
        THEN [i \in 1..Len(frame[c]) |-> IF mask[i] THEN 0 ELSE frame[c][i]]
        ELSE frame[c]]

\* lines 205-232: the two configured angles the azimuth lies between and
\* the distance, in degrees, from the first
HorizonSector(az) ==
    IF (0 <= az /\ az < 45) \/ az >= 315
    THEN [h1 |-> "north", h2 |-> "northeast",
          d |-> IF az < 45 THEN az % 45 ELSE az - 315]
    ELSE IF 45 <= az /\ az < 90 THEN [h1 |-> "northeast", h2 |-> "east", d |-> az - 45]
    ELSE IF 90 <= az /\ az < 135 THEN [h1 |-> "east", h2 |-> "southeast", d |-> az - 90]
    ELSE IF 135 <= az /\ az < 180 THEN [h1 |-> "southeast", h2 |-> "south", d |-> az - 135]
    ELSE IF 180 <= az /\ az < 225 THEN [h1 |-> "south", h2 |-> "southwest", d |-> az - 180]
    ELSE IF az < 270 THEN [h1 |-> "southwest", h2 |-> "west", d |-> az - 225]
    ELSE [h1 |-> "west", h2 |-> "northwest", d |-> az - 270]

\* line 235: h1 * (1 - weight) + h2 * weight, in thousandths of a degree
EffectiveHorizon(horizon_angles, az) ==
    LET sec == HorizonSector(az) IN
    ((Get(horizon_angles, sec.h1, 0) * (45 - sec.d)
        + Get(horizon_angles, sec.h2, 0) * sec.d) * 1000) \div 45

\* lines 238-245: 0 below the effective horizon, rising to 1 two degrees
\* above it
ShadingFactor(horizon_angles, elevation, az) ==
    LET eh == EffectiveHorizon(horizon_angles, az) IN
    IF 1000 * elevation < eh THEN 0
    ELSE IF 1000 * elevation < eh + 2000 THEN (1000 * elevation - eh) \div 2
    ELSE 1000

\* apply_horizon_shading, lines 186-253
apply_horizon_shading(forecast, horizon_angles) ==
    IF DOMAIN horizon_angles = {} THEN forecast
    ELSE ScaleColumns(forecast, EnhancedPowerCols,
            [i \in 1..Len(forecast["solar_elevation"]) |->
                ShadingFactor(horizon_angles, forecast["solar_elevation"][i],
                              forecast["solar_azimuth"][i])])

\* lines 291-298: power_boost = 1 + 0.1 * 0.5 * (1 - elevation / 5) where
\* elevation < 5, no boost elsewhere
PowerBoost(elevation) == IF elevation < 5 THEN 1050 - 10 * elevation ELSE 1000

\* apply_refraction_effects, lines 262-306
apply_refraction_effects(forecast) ==
    IF "solar_elevation" \in DOMAIN forecast
    THEN ScaleColumns(forecast, EnhancedPowerCols,
            [i \in 1..Len(forecast["solar_elevation"]) |->
                PowerBoost(forecast["solar_elevation"][i])])
    ELSE forecast

\* lines 342-356: dawn_dusk_factor + (1 - dawn_dusk_factor) *
\* (elevation + 6) / 21 where -6 < elevation <= 15, 1.0 elsewhere
PerformanceFactor(dawn_dusk_factor, elevation) ==
    IF elevation > 0 - 6 /\ elevation <= 15
    THEN dawn_dusk_factor + ((1000 - dawn_dusk_factor) * (elevation + 6)) \div 21
    ELSE 1000

\* apply_dawn_dusk_factors, lines 318-364
apply_dawn_dusk_factors(forecast, dawn_dusk_factor) ==
    IF "solar_elevation" \in DOMAIN forecast
    THEN ScaleColumns(forecast, EnhancedPowerCols,
            [i \in 1..Len(forecast["solar_elevation"]) |->
                PerformanceFactor(dawn_dusk_factor, forecast["solar_elevation"][i])])
    ELSE forecast

\* line 405: smooth_samples = max(1, int(smooth_minutes / time_diff))
SmoothSamples(smooth_minutes, time_diff) == Max(1, smooth_minutes \div time_diff)

Abs(x) == IF x < 0 THEN 0 - x ELSE x

SeqMax(vals) == CHOOSE v \in {vals[i] : i \in 1..Len(vals)} :
                    \A i \in 1..Len(vals) : v >= vals[i]

\* lines 416-420: a sample is flagged when it differs from its predecessor
\* by more than 10% of the column's maximum
FlaggedSamples(power) ==
    [j \in 1..Len(power) |->
        j > 1 /\ 10 * Abs(power[j] - power[j - 1]) > SeqMax(power)]

\* a mask that grows towards the later samples only
RECURSIVE ExpandMaskForward(_, _)
ExpandMaskForward(mask, rounds) ==
    IF rounds = 0 THEN mask
    ELSE ExpandMaskForward(
            [j \in 1..Len(mask) |-> mask[j] \/ (j > 1 /\ mask[j - 1])], rounds - 1)

\* lines 423-425, one round: mask[1:] |= mask[:-1]; mask[:-1] |= mask[1:]
RECURSIVE ExpandMask(_, _)
ExpandMask(mask, rounds) ==
    IF rounds = 0 THEN mask
    ELSE LET n == Len(mask)
             right == [j \in 1..n |-> mask[j] \/ (j > 1 /\ mask[j - 1])]
             both  == [j \in 1..n |-> right[j] \/ (j < n /\ right[j + 1])]
         IN  ExpandMask(both, rounds - 1)

\* weights, in ten-thousandths, of scipy's gaussian_filter1d for sigma = 1
\* (radius 4); sigma = max(smooth_samples / 3, 1) is 1 up to 3 samples
GaussianKernel(k) ==
    CASE k = 0 -> 3989 [] k = 1 -> 2420 [] k = 2 -> 540 [] k = 3 -> 44 [] OTHER -> 1

RECURSIVE KernelSum(_, _, _)
KernelSum(vals, j, k) ==
    IF k > 4 THEN 0
    ELSE GaussianKernel(Abs(k)) * vals[Clip(j + k, 1, Len(vals))]
            + KernelSum(vals, j, k + 1)

\* gaussian_filter1d(vals, sigma=1, mode='nearest')
GaussianFilter(vals) ==
    [j \in 1..Len(vals) |-> KernelSum(vals, j, 0 - 4) \div 9999]

\* positions of the flagged samples, in order
MaskPositions(mask) == SelectSeq([j \in 1..Len(mask) |-> j], LAMBDA j : mask[j])

\* lines 428-438: smoothed[mask] = gaussian_filter1d(power[mask], ...)
SmoothColumn(power, smooth_samples) ==
    LET mask == ExpandMask(FlaggedSamples(power), smooth_samples)
        pos  == MaskPositions(mask)
        filtered == GaussianFilter([k \in 1..Len(pos) |-> power[pos[k]]])
    IN  [j \in 1..Len(power) |->
            IF mask[j]
            THEN filtered[CHOOSE k \in 1..Len(pos) : pos[k] = j]
            ELSE power[j]]

\* smooth_power_transitions, lines 375-441; time_diff is the distance in
\* minutes between the first two index entries
smooth_power_transitions(forecast, time_diff, smooth_minutes) ==
    LET n == IF DOMAIN forecast = {} THEN 0
             ELSE Len(forecast[CHOOSE c \in DOMAIN forecast : TRUE])
        smooth_samples ==
            SmoothSamples(smooth_minutes, IF time_diff = 0 THEN 60 ELSE time_diff)
    IN  IF n > 1
        THEN [c \in DOMAIN forecast |->
                IF c \in EnhancedPowerCols /\ n > smooth_samples * 2
                THEN SmoothColumn(forecast[c], smooth_samples)
                ELSE forecast[c]]
        ELSE forecast

\* apply_physical_constraints, lines 445-493
apply_physical_constraints(forecast, config) ==
    LET n == IF DOMAIN forecast = {} THEN 0
             ELSE Len(forecast[CHOOSE c \in DOMAIN forecast : TRUE])
        horizon ==
            IF "solar_elevation" \in DOMAIN forecast
            THEN ZeroRows(forecast, EnhancedPowerCols,
                    [i \in 1..n |-> 1000 * forecast["solar_elevation"][i] < 0 - 833])
            ELSE forecast
        capacity_kw == Get(config, "capacity_kw", KW(1000))
        capped ==
            [c \in DOMAIN horizon |->
                IF c = "ac_power_kw"
                THEN [i \in 1..n |-> Clip(horizon[c][i], 0, capacity_kw)]
                ELSE IF c = "dc_power_kw"
                THEN [i \in 1..n |-> Clip(horizon[c][i], 0, (capacity_kw * 11) \div 10)]
                ELSE horizon[c]]
    IN  IF "effective_irradiance" \in DOMAIN capped
        THEN ZeroRows(capped, {"ac_power_kw"},
                [i \in 1..n |-> capped["effective_irradiance"][i] < 1])
        ELSE capped

\* enhance_forecast_shoulders(forecast, location, config), lines 25-81,
\* with the default smooth_minutes = 30
enhance_forecast_shoulders(forecast, config, time_diff) ==
    LET shaded    == apply_horizon_shading(forecast, Get(config, "horizon_shading", <<>>))
        refracted == apply_refraction_effects(shaded)
        factored  == apply_dawn_dusk_factors(refracted,
                        Get(config, "dawn_dusk_factor", 850))
        smoothed  == smooth_power_transitions(factored, time_diff, 30)
    IN  apply_physical_constraints(smoothed, config)

-----------------------------------------------------------------------------
(* The stages of the Transition Enhancer, one at a time: SpecTE.  The      *)
(* stages that work row by row get a series of one row with 10 kW on it,   *)
(* so that the power they return shows the factor in thousandths.          *)

\* rows of the series handed to the smoothing
MaxRowsTE == 6

UnitPowerTE == KW(10)

\* whole degrees of elevation, below and above every threshold of the stages
ElevationsTE == (0 - 10)..20

\* a horizon with a different angle in every octant, and one that is flat
HorizonAnglesTE ==
    {[north |-> 0, northeast |-> 5, east |-> 10, southeast |-> 15,
      south |-> 20, southwest |-> 25, west |-> 30, northwest |-> 35],
     [north |-> 8, south |-> 8]}

RowTE(elevation, azimuth) ==
    [ac_power_kw |-> <<UnitPowerTE>>, dc_power_kw |-> <<UnitPowerTE>>,
     ghi |-> <<500>>, solar_elevation |-> <<elevation>>,
     solar_azimuth |-> <<azimuth>>]

\* the power of a series around a sunrise, in steps of half the peak
PowerTE == {0, KW(50), KW(100)}

ArgsTE ==
    {[stage |-> "dawn_dusk", forecast |-> RowTE(elevation, 180),
      dawn_dusk_factor |-> factor] :
        elevation \in ElevationsTE, factor \in {850, 700}}
    \cup {[stage |-> "refraction", forecast |-> RowTE(elevation, 180)] :
        elevation \in ElevationsTE}
    \cup {[stage |-> "horizon", forecast |-> RowTE(elevation, azimuth),
           horizon_angles |-> angles] :
        elevation \in {3, 10, 18, 28}, azimuth \in 0..359, angles \in HorizonAnglesTE}
    \cup UNION {{[stage |-> "smoothing",
                  forecast |-> [ac_power_kw |-> power, ghi |-> [i \in 1..n |-> 500]],
                  time_diff |-> time_diff, smooth_minutes |-> 30] :
                    power \in [1..n -> PowerTE], time_diff \in {15, 60}} :
                 n \in 2..MaxRowsTE}

InitTE ==
    /\ IdleEarly /\ IdleLate /\ IdleRS /\ IdlePC
    /\ teArgs \in ArgsTE
    /\ teOut = <<>>
    /\ tePc = "call"

RunEnhancerStage ==
    /\ tePc = "call"
    /\ teOut' =
          CASE teArgs.stage = "dawn_dusk" ->
                  apply_dawn_dusk_factors(teArgs.forecast, teArgs.dawn_dusk_factor)
            [] teArgs.stage = "refraction" -> apply_refraction_effects(teArgs.forecast)
            [] teArgs.stage = "horizon" ->
                  apply_horizon_shading(teArgs.forecast, teArgs.horizon_angles)
            [] teArgs.stage = "smoothing" ->
                  smooth_power_transitions(teArgs.forecast, teArgs.time_diff,
                                           teArgs.smooth_minutes)
    /\ tePc' = "returned"
    /\ UNCHANGED <<teArgs, earlyVars, lateVars, rsVars, pcVars>>

NextTE == RunEnhancerStage

SpecTE == InitTE /\ [][NextTE]_vars

-----------------------------------------------------------------------------
(* The forecast candidates: unified_forecast.py *)

\* lines 247-257: the power column the physics candidate is built from
BasePower(enhanced_forecast) ==
    IF "ac_power_mw" \in DOMAIN enhanced_forecast
    THEN [i \in 1..Len(enhanced_forecast["ac_power_mw"]) |->
            MWToKW(enhanced_forecast["ac_power_mw"][i])]
    ELSE IF "ac_power" \in DOMAIN enhanced_forecast
    THEN [i \in 1..Len(enhanced_forecast["ac_power"]) |->
            WattsToKW(enhanced_forecast["ac_power"][i])]
    ELSE enhanced_forecast[CHOOSE c \in DOMAIN enhanced_forecast : TRUE]

\* tenths of base_power that each column of the physics candidate holds
\* (lines 270-277, uncertainty_factor = 0.1)
PhysicsBand(col) ==
    CASE col = "p10" -> 8 [] col = "p25" -> 9 [] col = "p75" -> 11
      [] col = "p90" -> 12 [] col = "uncertainty_lower" -> 9
      [] col = "uncertainty_upper" -> 11 [] OTHER -> 10

\* _create_physics_forecast, lines 231-279
create_physics_forecast(enhanced_forecast) ==
    LET base_power == BasePower(enhanced_forecast) IN
    [col \in CeilingCols |->
        [i \in 1..Len(base_power) |-> (base_power[i] * PhysicsBand(col)) \div 10]]

\* _create_ml_forecast, lines 284-430.  ml tells what the function finds:
\* status is "loaded" when a client_id was given, the model directory
\* exists, at least 80% of the training features are available and nothing
\* raised; models holds the regressors' outputs for the levels whose model
\* file exists; has_ghi tells whether 'ghi' is one of the features.
create_ml_forecast(weather, solpos, enhanced_forecast, config, ml) ==
    IF ml.status = "loaded" /\ DOMAIN ml.models # {}
    THEN predict_with_uncertainty(
            [rows |-> Len(weather["ghi"]), models |-> ml.models,
             clip_negative |-> TRUE, has_capacity |-> TRUE,
             capacity_kw |-> Get(Get(config, "plant", <<>>), "capacity_kw", KW(870)),
             has_solar |-> TRUE, elevation |-> solpos["elevation"],
             has_ghi |-> ml.has_ghi, ghi |-> weather["ghi"]])
    ELSE create_physics_forecast(enhanced_forecast)

\* the hours 6, 7, 18 and 19 only
DaylightEdgeHours == {6, 7, 18, 19}

\* the hours in which the weights lean to physics (line 556)
DawnDuskHours == {5, 6, 7, 18, 19, 20}

RECURSIVE SeqSum(_)
SeqSum(vals) == IF vals = <<>> THEN 0 ELSE Head(vals) + SeqSum(Tail(vals))

\* Weights are counted in sixtieths, so that the tenths of the Weight
\* Selector and the equal shares of up to six sources are exact: 1.0
WeightOne == 60

\* a weight given in tenths
Weight(tenths) == tenths * (WeightOne \div 10)

\* _calculate_optimal_weights, lines 501-563.  hours is
\* weather_data.index.hour, or <<>> for an index that has no hour.
calculate_optimal_weights(weather, hours) ==
    LET n == IF "cloud_cover" \in DOMAIN weather
             THEN Len(weather["cloud_cover"]) ELSE 0
        total == IF "cloud_cover" \in DOMAIN weather
                 THEN SeqSum(weather["cloud_cover"]) ELSE 0
        clear == "cloud_cover" \in DOMAIN weather /\ total < 20 * n
        overcast == "cloud_cover" \in DOMAIN weather /\ ~clear /\ total > 80 * n
        by_cloud == IF clear THEN Weight(5) ELSE IF overcast THEN Weight(2) ELSE Weight(3)
        ml_by_cloud == IF clear THEN Weight(5) ELSE IF overcast THEN Weight(8) ELSE Weight(7)
        dawn_dusk == \E i \in 1..Len(hours) : hours[i] \in DawnDuskHours
        physics_weight == IF dawn_dusk THEN Min(by_cloud + Weight(2), Weight(8)) ELSE by_cloud
    IN  [physics |-> physics_weight,
         ml |-> IF dawn_dusk THEN WeightOne - physics_weight ELSE ml_by_cloud]

RECURSIVE WeightedSum(_, _, _, _, _)
WeightedSum(forecasts, weights, names, col, i) ==
    IF names = {} THEN 0
    ELSE LET name == CHOOSE name \in names : TRUE
         IN  forecasts[name][col][i] * Get(weights, name, 0)
                + WeightedSum(forecasts, weights, names \ {name}, col, i)

RECURSIVE TotalWeight(_, _)
TotalWeight(weights, names) ==
    IF names = {} THEN 0
    ELSE LET name == CHOOSE name \in names : TRUE
         IN  Get(weights, name, 0) + TotalWeight(weights, names \ {name})

\* a weighted average that counts a forecast lacking the column as 0
WeightedAverageZeroFilled(forecasts, weights, n) ==
    LET all_columns == UNION {DOMAIN forecasts[name] : name \in DOMAIN forecasts}
        Having(col) == {name \in DOMAIN forecasts : col \in DOMAIN forecasts[name]}
    IN  [col \in {c \in all_columns : TotalWeight(weights, Having(c)) > 0} |->
            [i \in 1..n |->
                WeightedSum(forecasts, weights, Having(col), col, i)
                    \div TotalWeight(weights, DOMAIN forecasts)]]

\* forecast_models.py 375-395, method 'weighted_average': every column that
\* any forecast has, averaged over the forecasts that have it
WeightedAverage(forecasts, weights, n) ==
    LET all_columns == UNION {DOMAIN forecasts[name] : name \in DOMAIN forecasts}
        Having(col) == {name \in DOMAIN forecasts : col \in DOMAIN forecasts[name]}
    IN  [col \in {c \in all_columns : TotalWeight(weights, Having(c)) > 0} |->
            [i \in 1..n |->
                WeightedSum(forecasts, weights, Having(col), col, i)
                    \div TotalWeight(weights, Having(col))]]

\* line 473: ml_forecast.equals(physics_forecast).  The Quantile Band
\* Builder's frame starts with its quantile columns and the physics frame
\* with 'prediction', so the two are equal only when the ML candidate is
\* the physics candidate built a second time.
MlEqualsPhysics(ml) == ~(ml.status = "loaded" /\ DOMAIN ml.models # {})

\* _create_hybrid_forecast, lines 434-496
create_hybrid_forecast(weather, hours, solpos, enhanced_forecast, config, ml) ==
    LET physics_forecast == create_physics_forecast(enhanced_forecast)
        ml_forecast == create_ml_forecast(weather, solpos, enhanced_forecast, config, ml)
    IN  IF MlEqualsPhysics(ml) THEN physics_forecast
        ELSE WeightedAverage([name \in {"physics", "ml"} |->
                                 IF name = "physics" THEN physics_forecast
                                 ELSE ml_forecast],
                             calculate_optimal_weights(weather, hours),
                             Len(weather["ghi"]))

-----------------------------------------------------------------------------
(* Ensemble Combiner: forecast_models.py, create_ensemble_forecast.  A      *)
(* source is a series [index, frame]; weights is [given |-> FALSE] for     *)
(* None and [given |-> TRUE, map |-> a mapping from names to weights]       *)
(* otherwise.                                                               *)

\* the errors of lines 359, 367, 373 and 406 (all ValueError)
EmptyEnsemble == "No forecasts provided"

InvalidWeights == "Weights must sum to 1"

ShapeMismatch == "Forecast has different index"

UnknownMethod == "Unknown ensemble method"

\* a weight of 1.0 for every source
UnitWeights(forecasts) == [name \in DOMAIN forecasts |-> WeightOne]

\* line 363: {name: 1.0 / len(forecasts) for name in forecasts}
EqualWeights(forecasts) ==
    [name \in DOMAIN forecasts |-> WeightOne \div Cardinality(DOMAIN forecasts)]

\* line 366: abs(sum(weights.values()) - 1.0) > 1e-6
WeightsRejected(weights) ==
    Abs(TotalWeight(weights, DOMAIN weights) - WeightOne) * 1000000 > WeightOne

\* a check of the indexes' lengths only
IndexLengthsDiffer(forecasts) ==
    \E m, n \in DOMAIN forecasts : Len(forecasts[m].index) # Len(forecasts[n].index)

\* lines 370-373: some forecast's index is not the first forecast's index
IndexesDiffer(forecasts) ==
    LET first_index == forecasts[CHOOSE name \in DOMAIN forecasts : TRUE].index
    IN  \E name \in DOMAIN forecasts : forecasts[name].index # first_index

\* the frames of the sources
FramesOf(forecasts) == [name \in DOMAIN forecasts |-> forecasts[name].frame]

\* the values a column has in row i of the concatenated frames: one per
\* source that has the column
RECURSIVE ValuesAt(_, _, _, _)
ValuesAt(frames, names, col, i) ==
    IF names = {} THEN <<>>
    ELSE LET name == CHOOSE name \in names : TRUE
             rest == ValuesAt(frames, names \ {name}, col, i)
         IN  IF col \in DOMAIN frames[name] THEN <<frames[name][col][i]>> \o rest
             ELSE rest

\* the k-th smallest of a sequence of values
KthSmallest(vals, k) ==
    CHOOSE v \in {vals[j] : j \in 1..Len(vals)} :
        /\ Cardinality({j \in 1..Len(vals) : vals[j] < v}) < k
        /\ Cardinality({j \in 1..Len(vals) : vals[j] <= v}) >= k

\* the median and the mean of the values at hand
Median(vals) ==
    IF Len(vals) % 2 = 1 THEN KthSmallest(vals, (Len(vals) + 1) \div 2)
    ELSE (KthSmallest(vals, Len(vals) \div 2)
            + KthSmallest(vals, (Len(vals) \div 2) + 1)) \div 2

Mean(vals) == SeqSum(vals) \div Len(vals)

\* lines 397-403: pd.concat(forecasts.values()).groupby(level=0).median()
\* or .mean(): every column of any frame, row by row over the frames that
\* have the column
GroupedByRow(frames, n, method) ==
    LET all_columns == UNION {DOMAIN frames[name] : name \in DOMAIN frames}
    IN  [col \in all_columns |->
            [i \in 1..n |->
                IF method = "median"
                THEN Median(ValuesAt(frames, DOMAIN frames, col, i))
                ELSE Mean(ValuesAt(frames, DOMAIN frames, col, i))]]

\* create_ensemble_forecast, lines 327-408
create_ensemble_forecast(forecasts, weights, method) ==
    IF DOMAIN forecasts = {} THEN [raised |-> TRUE, error |-> EmptyEnsemble]
    ELSE
    LET used == IF weights.given THEN weights.map ELSE EqualWeights(forecasts)
        first_index == forecasts[CHOOSE name \in DOMAIN forecasts : TRUE].index
    IN  IF WeightsRejected(used)
        THEN [raised |-> TRUE, error |-> InvalidWeights]
        ELSE IF IndexesDiffer(forecasts)
        THEN [raised |-> TRUE, error |-> ShapeMismatch]
        ELSE IF method = "weighted_average"
        THEN [raised |-> FALSE, index |-> first_index,
              frame |-> WeightedAverage(FramesOf(forecasts), used, Len(first_index))]
        ELSE IF method \in {"median", "mean"}
        THEN [raised |-> FALSE, index |-> first_index,
              frame |-> GroupedByRow(FramesOf(forecasts), Len(first_index), method)]
        ELSE [raised |-> TRUE, error |-> UnknownMethod]

\* Inputs of the Ensemble Combiner.  Up to three sources; a source has one
\* of two indexes (hourly or two-hourly), a 'prediction' column and possibly
\* a 'p10' column, and rises from its level by 20 from row to row.
NamesEC == {"a", "b", "c"}

IndexesEC == {[i \in 1..MaxRowsEC |-> i], [i \in 1..MaxRowsEC |-> 2 * i - 1]}

LevelsEC == {100, 300}

SeriesEC(index, has_p10, level) ==
    [index |-> index,
     frame |-> [col \in (IF has_p10 THEN {"prediction", "p10"} ELSE {"prediction"}) |->
                  [i \in 1..Len(index) |->
                      IF col = "p10" THEN (level \div 2) + 10 * (i - 1)
                      ELSE level + 20 * (i - 1)]]]

SourcesEC ==
    {SeriesEC(index, has_p10, level) :
        index \in IndexesEC, has_p10 \in BOOLEAN, level \in LevelsEC}

ForecastsEC == UNION {[names -> SourcesEC] : names \in SUBSET NamesEC}

\* weights: None, or a mapping that gives some of the names 0, 0.3, 1/3 or
\* 0.7
WeightValuesEC == {0, Weight(3), WeightOne \div 3, Weight(7)}

WeightsEC ==
    {[given |-> FALSE]}
    \cup {[given |-> TRUE, map |-> map] :
            map \in UNION {[names -> WeightValuesEC] : names \in SUBSET NamesEC}}

MethodsEC == {"weighted_average", "median", "mean", "max"}

InitEC ==
    /\ IdleEarly /\ IdleWS /\ IdleVG /\ IdleDT /\ IdleLast
    /\ \E forecasts \in ForecastsEC, weights \in WeightsEC, method \in MethodsEC :
          ecArgs = [forecasts |-> forecasts, weights |-> weights, method |-> method]
    /\ ecOut = <<>>
    /\ ecPc = "call"

\* one call of create_ensemble_forecast
Combine ==
    /\ ecPc = "call"
    /\ ecOut' = create_ensemble_forecast(ecArgs.forecasts, ecArgs.weights, ecArgs.method)
    /\ ecPc' = IF ecOut'.raised THEN "raised" ELSE "returned"
    /\ UNCHANGED <<ecArgs, earlyVars, lastVars, wsVars, vgVars, dtVars>>

NextEC == Combine

SpecEC == InitEC /\ [][NextEC]_vars

-----------------------------------------------------------------------------
(* The Weight Selector on its own: SpecWS *)

\* cloud cover in percent, and hours of the day around the dawn and dusk hours
CloudCoverWS == {0, 20, 40, 80, 100}

HoursWS == {4, 5, 7, 8, 12, 18, 20, 21}

\* weather of n rows, with or without a 'cloud_cover' column, and the hours
\* of its index, <<>> for an index that is not a DatetimeIndex
WeatherOfRowsWS(n) ==
    UNION {{[weather |-> <<>>, hours |-> hours],
            [weather |-> [c \in {"cloud_cover"} |-> cloud], hours |-> hours],
            [weather |-> <<>>, hours |-> <<>>],
            [weather |-> [c \in {"cloud_cover"} |-> cloud], hours |-> <<>>]} :
           cloud \in [1..n -> CloudCoverWS], hours \in [1..n -> HoursWS]}

WeatherWS == UNION {WeatherOfRowsWS(n) : n \in 0..MaxRowsWS}

InitWS ==
    /\ IdleEarly /\ IdleEC /\ IdleVG /\ IdleDT /\ IdleLast
    /\ wsArgs \in WeatherWS
    /\ wsOut = <<>>
    /\ wsPc = "call"

SelectWeights ==
    /\ wsPc = "call"
    /\ wsOut' = calculate_optimal_weights(wsArgs.weather, wsArgs.hours)
    /\ wsPc' = "returned"
    /\ UNCHANGED <<wsArgs, earlyVars, lastVars, ecVars, vgVars, dtVars>>

NextWS == SelectWeights

SpecWS == InitWS /\ [][NextWS]_vars

-----------------------------------------------------------------------------
(* Performance Calibrator: performance_adjustment.py *)

\* the columns the ratio, the monthly factor and the derating multiply
PowerColumns ==
    {"prediction", "p10", "p25", "p50", "p75", "p90",
     "ac_power_kw", "uncertainty_lower", "uncertainty_upper"}

\* the columns the global calibration factor multiplies (line 82)
CalibratedColumns == {"prediction", "p10", "p25", "p50", "p75", "p90"}

\* lines 185-203: interp1d([0, 20, 50, 80, 100], [0.97, 0.90, 0.85, 0.75,
\* 0.75], kind='linear', fill_value='extrapolate') at one cloud cover
SmoothedRatio(cloud_cover) ==
    IF cloud_cover < 20 THEN 970 + ((0 - 70) * cloud_cover) \div 20
    ELSE IF cloud_cover < 50 THEN 900 + ((0 - 50) * (cloud_cover - 20)) \div 30
    ELSE IF cloud_cover < 80 THEN 850 + ((0 - 100) * (cloud_cover - 50)) \div 30
    ELSE 750

\* apply_weather_performance_ratios, lines 104-163: the ratios set from the
\* config at lines 131-146 are overwritten by smooth_performance_transitions
apply_weather_performance_ratios(forecast, weather, performance_config) ==
    IF "cloud_cover" \notin DOMAIN weather THEN forecast
    ELSE ScaleColumns(forecast, PowerColumns,
            [i \in 1..Len(weather["cloud_cover"]) |->
                SmoothedRatio(weather["cloud_cover"][i])])

\* apply_seasonal_adjustments, lines 208-248; months is forecast.index.month
apply_seasonal_adjustments(forecast, months, seasonal_adjustments) ==
    IF Len(seasonal_adjustments) # 12 THEN forecast
    ELSE ScaleColumns(forecast, PowerColumns,
            [i \in 1..Len(months) |-> seasonal_adjustments[months[i]]])

\* lines 291-303: the weather's temp_air values brought to the length n of
\* the forecast, by repeating each or by truncating
TempForRows(temp, n) ==
    IF n > Len(temp)
    THEN LET repeat_factor == (n + Len(temp) - 1) \div Len(temp)
         IN  [i \in 1..n |-> temp[((i - 1) \div repeat_factor) + 1]]
    ELSE [i \in 1..n |-> temp[i]]

\* lines 278-313: 0.98 above 35 up to 40 degrees, 0.95 above 40
DerateFactor(temp) ==
    IF temp > 40 THEN 950 ELSE IF temp > 35 THEN 980 ELSE 1000

\* apply_temperature_derating, lines 253-324; n is len(forecast)
apply_temperature_derating(forecast, weather, n) ==
    IF "temp_air" \notin DOMAIN weather THEN forecast
    ELSE IF Len(weather["temp_air"]) = 0 THEN forecast
    ELSE LET temp == TempForRows(weather["temp_air"], n)
         IN  ScaleColumns(forecast, PowerColumns,
                          [i \in 1..n |-> DerateFactor(temp[i])])

\* apply_performance_adjustments, lines 39-99 (apply_dynamic_soiling, the
\* last step, returns its argument)
apply_performance_adjustments(forecast, weather, months, performance_config, calibration_config) ==
    LET n == Len(months)
        by_weather == apply_weather_performance_ratios(forecast, weather,
                                                       performance_config)
        by_season == apply_seasonal_adjustments(by_weather, months,
                        Get(calibration_config, "seasonal_adjustments", <<>>))
        cal_factor == Get(calibration_config, "adjustment_factor", 1000)
        calibrated == IF cal_factor # 1000
                      THEN ScaleColumns(by_season, CalibratedColumns,
                                        [i \in 1..n |-> cal_factor])
                      ELSE by_season
    IN  apply_temperature_derating(calibrated, weather, n)

-----------------------------------------------------------------------------
(* run_unified_forecast, unified_forecast.py 51-226 *)

\* the frame with every column as a float64 column, and back
Typed(frame) == [c \in DOMAIN frame |-> [dtype |-> "float64", vals |-> frame[c]]]

Untyped(frame) == [c \in DOMAIN frame |-> frame[c].vals]

\* d[key] = value
SetKey(d, key, value) ==
    [k \in DOMAIN d \cup {key} |-> IF k = key THEN value ELSE d[k]]

\* index.hour and the distance in minutes between the first two entries of
\* an index of quarter-hour slots
HourOf(slot) == (slot \div 4) % 24

TimeDiff(index) == IF Len(index) > 1 THEN 15 * (index[2] - index[1]) ELSE 0

ForecastTypes == {"physics", "ml", "hybrid"}

\* lines 104-114: what makes the call raise ValueError
InvalidCall(args) ==
    \/ DOMAIN args.weather = {}
    \/ Len(args.index) = 0
    \/ ~({"ghi", "temp_air"} \subseteq DOMAIN args.weather)
    \/ args.forecast_type \notin ForecastTypes

\* lines 152-153: performance_config = config.get('performance', {});
\* performance_config['capacity_kw'] = ...  The config as the call leaves it
ConfigAfterCall(config) ==
    IF "performance" \in DOMAIN config
    THEN SetKey(config, "performance",
            SetKey(config["performance"], "capacity_kw",
                   Get(Get(config, "plant", <<>>), "capacity_kw", KW(15000))))
    ELSE config

\* the function, step by step; every stage's frame is returned
run_unified_forecast(args) ==
    IF InvalidCall(args)
    THEN [raised |-> TRUE, config |-> args.config]
    ELSE
    LET n == Len(args.index)
        plant_capacity_kw ==
            Get(Get(args.config, "plant", <<>>), "capacity_kw", KW(15000))
        pvlib_forecast == run_pvlib_forecast(args.weather, args.solpos)
        performance_config ==
            SetKey(Get(args.config, "performance", <<>>), "capacity_kw",
                   plant_capacity_kw)
        enhanced_forecast ==
            enhance_forecast_shoulders(pvlib_forecast, performance_config,
                                       TimeDiff(args.index))
        hours == [i \in 1..n |-> HourOf(args.index[i])]
        final_forecast ==
            CASE args.forecast_type = "physics" ->
                    create_physics_forecast(enhanced_forecast)
              [] args.forecast_type = "ml" ->
                    create_ml_forecast(args.weather, args.solpos, enhanced_forecast,
                                       args.config, args.ml)
              [] args.forecast_type = "hybrid" ->
                    create_hybrid_forecast(args.weather, hours, args.solpos,
                                           enhanced_forecast, args.config, args.ml)
        adjusted_forecast ==
            apply_performance_adjustments(final_forecast, args.weather,
                [i \in 1..n |-> args.month],
                Get(ConfigAfterCall(args.config), "performance", <<>>),
                Get(args.config, "calibration", <<>>))
        constrained ==
            apply_capacity_constraints(Typed(adjusted_forecast), plant_capacity_kw)
    IN  [raised    |-> constrained.raised,
         config    |-> ConfigAfterCall(args.config),
         pvlib     |-> pvlib_forecast,
         enhanced  |-> enhanced_forecast,
         candidate |-> final_forecast,
         adjusted  |-> adjusted_forecast,
         forecast  |-> Untyped(constrained.frame)]

-----------------------------------------------------------------------------
(* Inputs of run_unified_forecast: series of one row, since every stage of  *)
(* the pipeline works row by row (the weights look at the whole series,     *)
(* which here is the row).                                                  *)

\* night, twilight and a clear noon
GhiUF == {0, 5} \cup {1000 * k : k \in 1..MaxGhiUF}

TempsUF == {25, 38, 50}

CloudCoverUF == {10, 90}

\* well below the horizon, at and inside the civil twilight, and daytime
ElevationsUF == {0 - 10, 0 - 6, 0 - 3, 30}

\* 06:00 and 12:00 as quarter-hour slots of the day
SlotsUF == {24, 48}

MonthsUF == {7}

AzimuthsUF == {180}

CapacitiesUF == {KW(500), KW(1000)}

\* the 'performance' section: absent, or present and empty
PerformanceUF == {<<>>, [performance |-> <<>>]}

\* the 'calibration' section: absent, or a global factor of 1.1 with a
\* monthly factor of 0.9 in the second half of the year
CalibrationUF ==
    {<<>>,
     [calibration |->
        [adjustment_factor |-> 1100,
         seasonal_adjustments |-> [m \in 1..12 |-> IF m > 6 THEN 900 ELSE 1000]]]}

\* the union of two mappings with disjoint keys
Merge(d1, d2) ==
    [k \in DOMAIN d1 \cup DOMAIN d2 |-> IF k \in DOMAIN d1 THEN d1[k] ELSE d2[k]]

ConfigsUF ==
    {Merge([plant |-> [capacity_kw |-> cap]], Merge(perf, cal)) :
        cap \in CapacitiesUF, perf \in PerformanceUF, cal \in CalibrationUF}

\* what the regressors return for a level: rising with the level, falling
\* with it (crossed quantiles), or far above any capacity
ShapesUF == {"rising", "falling", "flat"}

RawOutputUF(shape, level) ==
    CASE shape = "rising" -> KW(4 * level)
      [] shape = "falling" -> KW(1000 - 10 * level)
      [] shape = "flat" -> KW(1500)

\* the ways _create_ml_forecast gives up and answers with the physics
\* candidate
FallbacksUF == {"no_client_id", "no_model_path", "features_short", "error"}

\* the regressors' outputs on a series of n rows
ModelsUF(levels, shape, n) ==
    [l \in levels |-> [i \in 1..n |-> RawOutputUF(shape, l)]]

MlUF(n) ==
    {[status |-> st, models |-> <<>>, has_ghi |-> FALSE] : st \in FallbacksUF}
    \cup
    {[status |-> "loaded", models |-> ModelsUF(levels, shape, n), has_ghi |-> g] :
        levels \in SUBSET QuantileLevels, shape \in ShapesUF, g \in BOOLEAN}

\* the weather frame of one row with the columns cols
WeatherUF(cols, ghi, temp, cloud) ==
    [c \in cols |->
        CASE c = "ghi" -> <<ghi>> [] c = "temp_air" -> <<temp>>
          [] c = "cloud_cover" -> <<cloud>>]

WeatherColumnsUF ==
    {{"ghi", "temp_air", "cloud_cover"}, {"ghi", "temp_air"}, {"ghi"}}

InitUF ==
    /\ IdleCE /\ IdleQB /\ IdleTK /\ IdleLate /\ IdleLast
    /\ \E cols \in WeatherColumnsUF :
       \E ghi \in GhiUF :
       \E temp \in (IF "temp_air" \in cols THEN TempsUF ELSE {0}) :
       \E cloud \in (IF "cloud_cover" \in cols THEN CloudCoverUF ELSE {0}) :
       \E el \in ElevationsUF, az \in AzimuthsUF :
       \E slot \in SlotsUF, month \in MonthsUF :
       \E config \in ConfigsUF :
       \E forecast_type \in ForecastTypes \cup {"other"} :
       \E ml \in (IF forecast_type \in {"ml", "hybrid"} THEN MlUF(1)
                  ELSE {[status |-> "no_client_id", models |-> <<>>,
                         has_ghi |-> FALSE]}) :
          ufArgs = [weather |-> WeatherUF(cols, ghi, temp, cloud),
                    index |-> <<slot>>, month |-> month,
                    solpos |-> [elevation |-> <<el>>,
                                apparent_elevation |-> <<el>>,
                                azimuth |-> <<az>>],
                    config |-> config, forecast_type |-> forecast_type,
                    ml |-> ml]
    /\ ufOut = <<>>
    /\ ufPc = "call"

\* one call of run_unified_forecast
RunUnifiedForecast ==
    /\ ufPc = "call"
    /\ ufOut' = run_unified_forecast(ufArgs)
    /\ ufPc' = IF ufOut'.raised THEN "raised" ELSE "returned"
    /\ UNCHANGED <<ufArgs, ceVars, qbVars, tkVars, lateVars, lastVars>>

NextUF == RunUnifiedForecast

SpecUF == InitUF /\ [][NextUF]_vars

-----------------------------------------------------------------------------
(* Resolution Resampler: utils/time_resolution.py.  A series is a record   *)
(* [index, frame]; the index is a rising sequence of quarter-hour slots.   *)

\* pd.date_range(start=index[0], end=index[-1], freq='15min')
NewIndex(index) ==
    [k \in 1..(index[Len(index)] - index[1] + 1) |-> index[1] + k - 1]

\* the position of the last index entry at or before the slot, and of the
\* first at or after it
LastAtOrBefore(index, slot) ==
    CHOOSE i \in 1..Len(index) :
        /\ index[i] <= slot
        /\ \A j \in 1..Len(index) : index[j] <= slot => j <= i

FirstAtOrAfter(index, slot) ==
    CHOOSE i \in 1..Len(index) :
        /\ index[i] >= slot
        /\ \A j \in 1..Len(index) : index[j] >= slot => j >= i

\* series.resample('15min').interpolate(method='linear') at one slot
LinearAt(index, vals, slot) ==
    LET a == LastAtOrBefore(index, slot)
        b == FirstAtOrAfter(index, slot)
    IN  IF a = b THEN vals[a]
        ELSE vals[a] + ((vals[b] - vals[a]) * (slot - index[a]))
                            \div (index[b] - index[a])

\* series.resample('15min').ffill() at one slot
FfillAt(index, vals, slot) == vals[LastAtOrBefore(index, slot)]

\* the cubic through four hourly values, s quarter hours after the first
CubicThroughFour(y, s) ==
    ((0 - y[1]) * (s - 4) * (s - 8) * (s - 12)
        + 3 * y[2] * s * (s - 8) * (s - 12)
        - 3 * y[3] * s * (s - 4) * (s - 12)
        + y[4] * s * (s - 4) * (s - 8)) \div 384

\* series.resample('15min').interpolate(method='cubic') at one slot: the
\* values at hand where the series has one for every slot, the spline
\* through the values (for four hourly values, one cubic) where it has not
CubicAt(index, vals, slot) ==
    IF \E i \in 1..Len(index) : index[i] = slot
    THEN vals[CHOOSE i \in 1..Len(index) : index[i] = slot]
    ELSE CubicThroughFour(vals, slot - index[1])

\* the interpolation each weather column gets (lines 40-62)
WeatherMethod(col) ==
    IF col \in {"ghi", "dni", "dhi", "gti"} THEN "cubic"
    ELSE IF col = "cloud_cover" THEN "ffill"
    ELSE "linear"

\* the interpolation each forecast column gets (lines 104-125)
ForecastMethod(col) ==
    IF col \in {"prediction", "power_mw", "power_kw", "energy_mwh",
                "p10", "p25", "p50", "p75", "p90",
                "uncertainty_lower", "uncertainty_upper",
                "confidence_lower", "confidence_upper"} THEN "cubic"
    ELSE IF col \in {"model_type", "model_version", "location_id"} THEN "ffill"
    ELSE "linear"

\* one column brought to the new index; cubic columns are clipped at 0
ResampleColumn(index, vals, method) ==
    LET new_index == NewIndex(index) IN
    [k \in 1..Len(new_index) |->
        CASE method = "cubic" -> Max(CubicAt(index, vals, new_index[k]), 0)
          [] method = "ffill" -> FfillAt(index, vals, new_index[k])
          [] method = "linear" -> LinearAt(index, vals, new_index[k])]

\* the weather handed on at the resolution it came in
WeatherAsGiven(weather) == weather

\* resample_weather_to_15min, lines 11-72
resample_weather_to_15min(weather) ==
    IF Len(weather.index) = 0 \/ DOMAIN weather.frame = {} THEN weather
    ELSE
    LET new_index == NewIndex(weather.index)
        resampled == [col \in DOMAIN weather.frame |->
                        ResampleColumn(weather.index, weather.frame[col],
                                       WeatherMethod(col))]
    IN  [index |-> new_index,
         frame |->
            IF "ghi" \in DOMAIN resampled
            THEN ZeroRows(resampled, {"ghi", "dni", "dhi", "gti"},
                          [k \in 1..Len(new_index) |-> resampled["ghi"][k] < 1])
            ELSE resampled]

\* resample_forecast_to_15min, lines 75-131
resample_forecast_to_15min(forecast) ==
    IF Len(forecast.index) = 0 \/ DOMAIN forecast.frame = {} THEN forecast
    ELSE
    LET new_index == NewIndex(forecast.index)
        resampled == [col \in DOMAIN forecast.frame |->
                        ResampleColumn(forecast.index, forecast.frame[col],
                                       ForecastMethod(col))]
    IN  [index |-> new_index,
         frame |-> [col \in DOMAIN resampled |->
                      IF col = "energy_mwh"
                      THEN [k \in 1..Len(new_index) |-> resampled[col][k] \div 4]
                      ELSE resampled[col]]]

-----------------------------------------------------------------------------
(* The Resolution Resampler on its own: SpecRS.  The series have four      *)
(* hourly rows; their values are multiples of 384, so that the cubic       *)
(* through them is exact at every quarter hour, and the energy values are  *)
(* multiples of 4 * 384, so that their quarters are exact as well.         *)

\* the levels a channel takes, in units of 384
MaxLevelRS == 1

LevelsRS == {384 * k : k \in 0..MaxLevelRS}

HourlyIndexRS == <<0, 4, 8, 12>>

\* hourly forecasts with a power and an energy channel
ForecastsRS ==
    {[index |-> HourlyIndexRS,
      frame |-> [prediction |-> prediction, energy_mwh |-> energy_mwh]] :
        prediction \in [1..4 -> {0, KW(384)}], energy_mwh \in [1..4 -> {4 * level : level \in LevelsRS}]}

\* hourly weather with two radiative channels and the temperature
WeatherRS ==
    {[index |-> HourlyIndexRS,
      frame |-> [ghi |-> ghi, dni |-> dni, temp_air |-> <<20, 24, 28, 24>>]] :
        ghi \in [1..4 -> LevelsRS], dni \in [1..4 -> {0, 768}]}

InitRS ==
    /\ IdleEarly /\ IdleLate /\ IdleTE /\ IdlePC
    /\ \/ \E forecast \in ForecastsRS : rsArgs = [kind |-> "forecast", series |-> forecast]
       \/ \E weather \in WeatherRS : rsArgs = [kind |-> "weather", series |-> weather]
    /\ rsOut = <<>>
    /\ rsPc = "call"

Resample ==
    /\ rsPc = "call"
    /\ rsOut' = IF rsArgs.kind = "forecast"
                THEN resample_forecast_to_15min(rsArgs.series)
                ELSE resample_weather_to_15min(rsArgs.series)
    /\ rsPc' = "returned"
    /\ UNCHANGED <<rsArgs, earlyVars, lateVars, teVars, pcVars>>

NextRS == Resample

SpecRS == InitRS /\ [][NextRS]_vars

-----------------------------------------------------------------------------
(* A forecast task: services.py, ForecastService.process_forecast_task *)

\* repositories.py 653-657: the plant section built from the location
build_config_from_location(location) ==
    [plant |-> [capacity_kw |-> MWToKW(location.capacityMW),
                capacity_mw |-> location.capacityMW]]

\* task_manager.update_task: self._tasks[task_id].update(updates)
update_task(task, updates) ==
    [k \in DOMAIN task \cup DOMAIN updates |->
        IF k \in DOMAIN updates THEN updates[k] ELSE task[k]]

\* a whole column holding one value
ConstantColumn(n, value) == [i \in 1..n |-> value]

\* lines 145-162: model metadata, power_mw clipped at the location's
\* capacity, capacity_factor (in thousandths)
FinishForecast(forecast, has_models, models, max_capacity_mw) ==
    LET n == Len(forecast.index)
        tagged == SetKey(SetKey(forecast.frame, "model_type",
                            ConstantColumn(n, IF has_models THEN models.model_type
                                              ELSE "PHYSICS_ONLY")),
                         "model_version",
                         ConstantColumn(n, IF has_models THEN models.version
                                           ELSE "1.0"))
        power_mw == [i \in 1..n |->
                        Min(KWToMW(tagged["prediction"][i]), max_capacity_mw)]
    IN  [index |-> forecast.index,
         frame |-> SetKey(SetKey(tagged, "power_mw", power_mw),
                          "capacity_factor",
                          [i \in 1..n |-> power_mw[i] \div (max_capacity_mw \div 1000)])]

\* lines 134-139: the pipeline called with the quarter-hour weather.  profile
\* gives the solar position of a slot, ml what _create_ml_forecast finds.
PipelineCall(weather_15min, location, has_models, profile, ml) ==
    run_unified_forecast(
        [weather |-> weather_15min.frame,
         index |-> weather_15min.index,
         month |-> profile.month,
         solpos |-> [c \in {"elevation", "apparent_elevation", "azimuth"} |->
                       [i \in 1..Len(weather_15min.index) |->
                           IF c = "azimuth" THEN profile.azimuth
                           ELSE profile.elevation[weather_15min.index[i]]]],
         config |-> build_config_from_location(location),
         forecast_type |-> IF has_models THEN "hybrid" ELSE "physics",
         ml |-> [status |-> IF "code" \in DOMAIN location THEN ml.status
                            ELSE "no_client_id",
                 models |-> ModelsUF(ml.levels, ml.shape, Len(weather_15min.index)),
                 has_ghi |-> ml.has_ghi]])

\* lines 141-162: what the pipeline returned, on the index of the weather it
\* was given, brought to quarter hours and finished
PipelineResult(index, call, location, has_models, models) ==
    IF call.raised THEN [raised |-> TRUE]
    ELSE [raised |-> FALSE,
          forecast_df |->
             FinishForecast(
                resample_forecast_to_15min([index |-> index, frame |-> call.forecast]),
                has_models, models, location.capacityMW)]

\* lines 131-162 on the weather at quarter hours
ForecastOn(weather_15min, location, has_models, models, profile, ml) ==
    PipelineResult(weather_15min.index,
                   PipelineCall(weather_15min, location, has_models, profile, ml),
                   location, has_models, models)

\* lines 123-162: the weather brought to quarter hours, the pipeline run on
\* it, its series brought to quarter hours and finished
ForecastStep(weather_df, location, has_models, models, profile, ml) ==
    ForecastOn(resample_weather_to_15min(weather_df),
               location, has_models, models, profile, ml)

-----------------------------------------------------------------------------
(* Inputs of a forecast task: four hourly weather rows *)

\* the hourly index starting at 04:00 or at 10:00
StartsTK == {16, 40}

HourlyIndex(start) == <<start, start + 4, start + 8, start + 12>>

\* hourly irradiance: night or a clear noon
GhiTK == {0, 1000}

TempProfilesTK == {<<25, 25, 25, 25>>, <<20, 30, 40, 50>>}

CloudProfilesTK == {<<10, 90, 90, 10>>}

WeatherColumnsTK ==
    {{"ghi", "temp_air", "cloud_cover"}, {"ghi", "temp_air"}, {"temp_air"}}

\* the sun during the three hours of the series: down, up, or rising
ProfilesTK == {"night", "day", "dawn"}

ElevationTK(profile, k) ==
    CASE profile = "night" -> 0 - 10
      [] profile = "day" -> 30
      [] profile = "dawn" ->
            IF k < 3 THEN 0 - 10 ELSE IF k < 5 THEN 0 - 6
            ELSE IF k < 8 THEN 0 - 3 ELSE 30

SolarProfileTK(profile, start) ==
    [elevation |-> [slot \in start..(start + 12) |-> ElevationTK(profile, slot - start)],
     azimuth |-> 180, month |-> 7]

\* the location's capacity in millionths of a MW: k * 0.5 MW
CapacitiesTK == {KWToMW(KW(500 * k)) : k \in 1..MaxCapacityTK}

\* a location without a code, and one with a code
LocationsTK ==
    {[capacityMW |-> cap] : cap \in CapacitiesTK}
    \cup {[capacityMW |-> cap, code |-> "plant"] : cap \in CapacitiesTK}

\* what ml_service.load_location_models returns when it finds models
LoadedModelsTK == [model_type |-> "ML_ENSEMBLE", version |-> "1.0"]

LevelSetsTK == {QuantileLevels, {10, 50, 90}, {50}}

MlTK ==
    {[status |-> "no_model_path", levels |-> {}, shape |-> "flat", has_ghi |-> FALSE]}
    \cup
    {[status |-> "loaded", levels |-> levels, shape |-> shape, has_ghi |-> g] :
        levels \in LevelSetsTK, shape \in ShapesUF, g \in BOOLEAN}

WeatherTK(cols, start, ghi, temp, cloud) ==
    [index |-> HourlyIndex(start),
     frame |-> [c \in cols |->
                  CASE c = "ghi" -> ghi [] c = "temp_air" -> temp
                    [] c = "cloud_cover" -> cloud]]

\* queue_forecast_generation, lines 46-71: the record of a queued task
QueuedTask == [status |-> "queued", progress |-> 0, result |-> "None",
               error |-> "None"]

NoLocals == [location |-> <<>>, config |-> <<>>, weather_df |-> <<>>,
             has_models |-> FALSE, forecast_df |-> <<>>]

InitTK ==
    /\ IdleCE /\ IdleQB /\ IdleUF /\ IdleLate /\ IdleLast
    /\ \E cols \in WeatherColumnsTK :
       \E start \in StartsTK :
       \E ghi \in (IF "ghi" \in cols THEN [1..4 -> GhiTK] ELSE {<<>>}) :
       \E temp \in TempProfilesTK :
       \E cloud \in (IF "cloud_cover" \in cols THEN CloudProfilesTK ELSE {<<>>}) :
       \E profile \in ProfilesTK :
       \E location \in LocationsTK :
       \E has_models \in (IF "code" \in DOMAIN location THEN BOOLEAN ELSE {FALSE}) :
       \E ml \in (IF has_models THEN MlTK
                  ELSE {[status |-> "no_model_path", levels |-> {},
                         shape |-> "flat", has_ghi |-> FALSE]}) :
          tkArgs = [location |-> location,
                    weather |-> WeatherTK(cols, start, ghi, temp, cloud),
                    has_models |-> has_models, ml |-> ml,
                    profile |-> SolarProfileTK(profile, start)]
    /\ tkTask = QueuedTask
    /\ tkLocals = NoLocals
    /\ tkPc = "start"

\* an except branch that records the error and leaves the status as it is
FailTaskKeepingStatus(error) ==
    /\ tkTask' = update_task(tkTask, [error |-> error])
    /\ tkPc' = "done"
    /\ UNCHANGED tkLocals

\* lines 192-197: the except branch
FailTask(error) ==
    /\ tkTask' = update_task(tkTask, [status |-> "failed", error |-> error])
    /\ tkPc' = "done"
    /\ UNCHANGED tkLocals

\* line 82
StartTask ==
    /\ tkPc = "start"
    /\ tkTask' = update_task(tkTask, [status |-> "processing", progress |-> 10])
    /\ tkPc' = "get_location"
    /\ UNCHANGED <<tkArgs, tkLocals, ceVars, qbVars, ufVars, lateVars, lastVars>>

\* lines 86-90: the location is found in the database, or it is not
GetLocation ==
    /\ tkPc = "get_location"
    /\ \E found \in BOOLEAN :
        IF found
        THEN /\ tkLocals' = [tkLocals EXCEPT !.location = tkArgs.location]
             /\ tkTask' = update_task(tkTask, [progress |-> 20])
             /\ tkPc' = "build_config"
        ELSE FailTask("ValueError: location not found")
    /\ UNCHANGED <<tkArgs, ceVars, qbVars, ufVars, lateVars, lastVars>>

\* lines 94-96
BuildConfig ==
    /\ tkPc = "build_config"
    /\ tkLocals' = [tkLocals EXCEPT
                        !.config = build_config_from_location(tkLocals.location)]
    /\ tkTask' = update_task(tkTask, [progress |-> 30])
    /\ tkPc' = "get_weather"
    /\ UNCHANGED <<tkArgs, ceVars, qbVars, ufVars, lateVars, lastVars>>

\* lines 99-107: the weather rows of the location, or none
GetWeather ==
    /\ tkPc = "get_weather"
    /\ \E rows \in BOOLEAN :
        IF rows
        THEN /\ tkLocals' = [tkLocals EXCEPT !.weather_df = tkArgs.weather]
             /\ tkTask' = update_task(tkTask, [progress |-> 40])
             /\ tkPc' = "load_models"
        ELSE FailTask("ValueError: no weather data")
    /\ UNCHANGED <<tkArgs, ceVars, qbVars, ufVars, lateVars, lastVars>>

\* lines 111-120
LoadModels ==
    /\ tkPc = "load_models"
    /\ tkLocals' = [tkLocals EXCEPT
                        !.has_models = "code" \in DOMAIN tkLocals.location
                                            /\ tkArgs.has_models]
    /\ tkTask' = update_task(tkTask, [progress |-> 60])
    /\ tkPc' = "run_forecast"
    /\ UNCHANGED <<tkArgs, ceVars, qbVars, ufVars, lateVars, lastVars>>

\* lines 123-168: the engine was imported or it was not; the pipeline
\* returns or raises
RunForecast ==
    /\ tkPc = "run_forecast"
    /\ \E available \in BOOLEAN :
        IF available
        THEN \E step \in {ForecastStep(tkLocals.weather_df, tkLocals.location,
                                        tkLocals.has_models, LoadedModelsTK,
                                        tkArgs.profile, tkArgs.ml)} :
                IF step.raised THEN FailTask("ValueError: pipeline")
                ELSE /\ tkLocals' = [tkLocals EXCEPT !.forecast_df = step.forecast_df]
                     /\ tkTask' = update_task(tkTask, [progress |-> 80])
                     /\ tkPc' = "save"
        ELSE FailTask("ImportError: engine not available")
    /\ UNCHANGED <<tkArgs, ceVars, qbVars, ufVars, lateVars, lastVars>>

\* lines 172-190: the rows are saved, or the database raises
SaveForecasts ==
    /\ tkPc = "save"
    /\ \E saved \in BOOLEAN :
        IF saved
        THEN /\ tkTask' = update_task(tkTask,
                    [progress |-> 100, status |-> "completed",
                     result |-> [forecast_count |-> Len(tkLocals.forecast_df.index),
                                 model_type |->
                                    tkLocals.forecast_df.frame["model_type"][1],
                                 capacity_mw |-> tkLocals.location.capacityMW]])
             /\ tkPc' = "done"
             /\ UNCHANGED tkLocals
        ELSE FailTask("database error")
    /\ UNCHANGED <<tkArgs, ceVars, qbVars, ufVars, lateVars, lastVars>>

NextTK ==
    \/ StartTask \/ GetLocation \/ BuildConfig \/ GetWeather
    \/ LoadModels \/ RunForecast \/ SaveForecasts

SpecTK == InitTK /\ [][NextTK]_vars

-----------------------------------------------------------------------------
(* Validation Gate: performance_adjustment.py,                              *)
(* validate_forecast_comprehensive.  Frames map a column name to the        *)
(* sequence of the rows' values, power in hundredths of a kW; a missing     *)
(* value is NaN.  A mean is kept as the fraction sum/count, so that the     *)
(* comparisons with the thresholds are exact; 0/0 is the mean of nothing,   *)
(* which is NaN.  Percentages of the accuracy error are in hundredths of a  *)
(* percent, ratios in thousandths.                                          *)

\* numpy's NaN: max, mean and sum skip it, every comparison with it is False
NaN == 0 - 2000000000

NotNaN(x) == x # NaN

Present(vals) == SelectSeq(vals, NotNaN)

\* Series.max() and Series.mean()
MaxSkipNa(vals) == IF Present(vals) = <<>> THEN NaN ELSE SeqMax(Present(vals))

MeanSkipNa(vals) == [sum |-> SeqSum(Present(vals)), count |-> Len(Present(vals))]

RECURSIVE GCD(_, _)
GCD(a, b) == IF b = 0 THEN a ELSE GCD(b, a % b)

\* mean > x and mean < x, for x >= 0 given as the fraction num/den, which is
\* reduced before the cross-multiplication
MeanAbove(mean, num, den) ==
    /\ mean.count > 0
    /\ mean.sum * (den \div GCD(num, den)) > (num \div GCD(num, den)) * mean.count

MeanBelow(mean, num, den) ==
    /\ mean.count > 0
    /\ mean.sum * (den \div GCD(num, den)) < (num \div GCD(num, den)) * mean.count

\* thresholds that warn as soon as the accuracy error is above the target
ValidationFrameworkWarnAtTarget(config) ==
    [capacity_limits |-> [max_power_kw |-> config.plant.capacity_kw],
     mape_requirements |->
        [target_mape |-> 100, warning_mape |-> 100, failure_mape |-> 1000],
     physics_validation |->
        [min_night_elevation |-> 0 - 5, max_night_power_ratio |-> 1],
     data_quality |->
        [max_negative_values |-> 0, max_missing_percentage |-> 5,
         min_forecast_hours |-> 24],
     quantile_validation |-> [required_quantiles |-> <<"p10", "p50", "p90">>],
     performance_validation |->
        [min_capacity_factor |-> 50, max_capacity_factor |-> 350,
         max_ramp_rate_per_hour |-> 500]]

\* lines 554-620: the thresholds of the gate
create_validation_framework(config) ==
    [capacity_limits |-> [max_power_kw |-> config.plant.capacity_kw],
     mape_requirements |->
        [target_mape |-> 100, warning_mape |-> 500, failure_mape |-> 1000],
     physics_validation |->
        [min_night_elevation |-> 0 - 5, max_night_power_ratio |-> 1],
     data_quality |->
        [max_negative_values |-> 0, max_missing_percentage |-> 5,
         min_forecast_hours |-> 24],
     quantile_validation |-> [required_quantiles |-> <<"p10", "p50", "p90">>],
     performance_validation |->
        [min_capacity_factor |-> 50, max_capacity_factor |-> 350,
         max_ramp_rate_per_hour |-> 500]]

\* lines 774-792: the rows with a zero actual are left out; the mean of
\* |actual - forecast| / |actual| * 100 over the others, 0.0 if there are none
calculate_mape(forecast, actual) ==
    LET mask == {i \in 1..Len(actual) : actual[i] # 0}
        errors == [i \in 1..Len(actual) |->
            IF i \notin mask \/ actual[i] = NaN \/ forecast[i] = NaN THEN NaN
            ELSE (Abs(actual[i] - forecast[i]) * 10000) \div Abs(actual[i])]
    IN  IF mask = {} THEN [sum |-> 0, count |-> 1] ELSE MeanSkipNa(errors)

\* line 701: (forecast['prediction'] < 0).sum()
NegativeCount(vals) == Cardinality({i \in 1..Len(vals) : NotNaN(vals[i]) /\ vals[i] < 0})

\* line 706: forecast['prediction'].isna().sum()
MissingCount(vals) == Cardinality({i \in 1..Len(vals) : vals[i] = NaN})

\* lines 690-695: the rows of the night, and whether one of them has more
\* than max_night_power_ratio of the capacity
NightRows(weather_data, min_night_elevation) ==
    {i \in 1..Len(weather_data["solar_elevation"]) :
        weather_data["solar_elevation"][i] < min_night_elevation}

NightProduction(vals, weather_data, vc, capacity_kw) ==
    /\ "solar_elevation" \in DOMAIN weather_data
    /\ \E i \in NightRows(weather_data, vc.physics_validation.min_night_elevation) :
          /\ NotNaN(vals[i])
          /\ vals[i] * 1000 > vc.physics_validation.max_night_power_ratio * capacity_kw

\* lines 721-730: the required quantile channels the series has, in order,
\* and the rows in which one lies above the next
ExistingQuantiles(forecast, vc) ==
    SelectSeq(vc.quantile_validation.required_quantiles,
              LAMBDA col : col \in DOMAIN forecast)

OrderViolations(forecast, prev_col, curr_col) ==
    Cardinality({i \in 1..Len(forecast[prev_col]) :
        /\ NotNaN(forecast[prev_col][i]) /\ NotNaN(forecast[curr_col][i])
        /\ forecast[prev_col][i] > forecast[curr_col][i]})

QuantileWarnings(forecast, vc) ==
    LET existing == ExistingQuantiles(forecast, vc)
        Crossed(i) == OrderViolations(forecast, existing[i - 1], existing[i]) > 0
        RECURSIVE From(_)
        From(i) == IF i > Len(existing) THEN <<>>
                   ELSE (IF Crossed(i)
                         THEN <<"Quantile ordering violations " \o existing[i - 1]
                                    \o ">" \o existing[i]>>
                         ELSE <<>>) \o From(i + 1)
    IN  From(2)

\* line 742: forecast['prediction'].diff().abs().max()
MaxRamp(vals) ==
    MaxSkipNa([i \in 1..Len(vals) |->
        IF i = 1 \/ vals[i] = NaN \/ vals[i - 1] = NaN THEN NaN
        ELSE Abs(vals[i] - vals[i - 1])])

\* what the checks of lines 664-747 find
GateChecks(forecast, weather_data, config, actual_data) ==
    LET vc == create_validation_framework(config)
        capacity_kw == config.plant.capacity_kw
        vals == forecast["prediction"]
        mape == IF actual_data.given
                THEN calculate_mape(vals, actual_data.frame["actual"])
                ELSE [sum |-> 0, count |-> 0]
        over_target == MeanAbove(mape, vc.mape_requirements.target_mape, 1)
        mean_power == MeanSkipNa(vals)
    IN  [max_power |-> MaxSkipNa(vals),
         capacity_violation |->
            /\ NotNaN(MaxSkipNa(vals))
            /\ MaxSkipNa(vals) > vc.capacity_limits.max_power_kw,
         mape |-> mape,
         mape_failure |->
            over_target /\ MeanAbove(mape, vc.mape_requirements.failure_mape, 1),
         mape_warning |->
            /\ over_target
            /\ ~MeanAbove(mape, vc.mape_requirements.failure_mape, 1)
            /\ MeanAbove(mape, vc.mape_requirements.warning_mape, 1),
         night_production |-> NightProduction(vals, weather_data, vc, capacity_kw),
         negative_count |-> NegativeCount(vals),
         negatives |-> NegativeCount(vals) > vc.data_quality.max_negative_values,
         missing_count |-> MissingCount(vals),
         missing |->
            MissingCount(vals) * 100 > vc.data_quality.max_missing_percentage * Len(vals),
         forecast_hours |-> Len(vals),
         too_short |-> Len(vals) < vc.data_quality.min_forecast_hours,
         quantile_warnings |-> QuantileWarnings(forecast, vc),
         mean_power |-> mean_power,
         low_capacity_factor |->
            MeanBelow(mean_power,
                      vc.performance_validation.min_capacity_factor * capacity_kw, 1000),
         high_capacity_factor |->
            /\ ~MeanBelow(mean_power,
                      vc.performance_validation.min_capacity_factor * capacity_kw, 1000)
            /\ MeanAbove(mean_power,
                      vc.performance_validation.max_capacity_factor * capacity_kw, 1000),
         max_ramp |-> MaxRamp(vals),
         high_ramp |->
            /\ NotNaN(MaxRamp(vals))
            /\ MaxRamp(vals) * 1000
                 > vc.performance_validation.max_ramp_rate_per_hour * capacity_kw]

\* an entry of a list of messages, if its condition holds
Entry(condition, message) == IF condition THEN <<message>> ELSE <<>>

\* report['critical_failures'], in the order of the appends, each message
\* without the numbers formatted into it
CriticalFailures(c) ==
    Entry(c.capacity_violation, "CAPACITY VIOLATION")
        \o Entry(c.mape_failure, "MAPE FAILURE")
        \o Entry(c.negatives, "Negative values")
        \o Entry(c.missing, "Missing data")
        \o Entry(c.too_short, "Forecast too short")

\* report['warnings']
Warnings(c) ==
    Entry(c.mape_warning, "MAPE WARNING")
        \o Entry(c.night_production, "Night production detected")
        \o c.quantile_warnings
        \o Entry(c.low_capacity_factor, "Low capacity factor")
        \o Entry(c.high_capacity_factor, "High capacity factor")
        \o Entry(c.high_ramp, "High ramp rate")

\* a gate that fails for a warning as well
PassedWithoutWarnings(c) ==
    ~(c.capacity_violation \/ c.mape_failure \/ c.negatives \/ c.missing
        \/ c.too_short \/ c.high_ramp \/ c.night_production)

\* report['validation_passed']: True at line 655, set to False at lines
\* 672, 685, 704, 709 and 714
ValidationPassed(c) ==
    ~(c.capacity_violation \/ c.mape_failure \/ c.negatives \/ c.missing
        \/ c.too_short)

\* lines 625-769; now is what pd.Timestamp.now() returns at line 654
validate_forecast_comprehensive(forecast, weather_data, config, actual_data, now) ==
    LET c == GateChecks(forecast, weather_data, config, actual_data)
    IN  [timestamp |-> now,
         validation_passed |-> ValidationPassed(c),
         critical_failures |-> CriticalFailures(c),
         warnings |-> Warnings(c),
         metrics |->
            [max_power_kw |-> c.max_power,
             mape_percent |-> c.mape,
             negative_values |-> c.negative_count,
             missing_count |-> c.missing_count,
             forecast_hours |-> c.forecast_hours,
             mean_power_kw |-> c.mean_power,
             max_ramp_kw |-> c.max_ramp],
         summary |->
            [status |-> IF ValidationPassed(c) THEN "PASS" ELSE "FAIL",
             critical_failures |-> Len(CriticalFailures(c)),
             warnings |-> Len(Warnings(c)),
             key_metrics |->
                [max_power_kw |-> c.max_power, forecast_hours |-> c.forecast_hours]]]

-----------------------------------------------------------------------------
(* Inputs of the Validation Gate: a plant of 1000 kW and series that are    *)
(* flat at a level but for their second row, hourly or quarter-hourly.      *)

CapacityVG == KW(1000)

\* rows of the series, and minutes between two rows
RowCountsVG == {20, 24, 96}

IntervalsVG == {60, 15}

\* the level of the series: 2% and 60% of the capacity, and 200 kW with an
\* error of 0, 1, 3, 5, 7, 10 and 20 percent of it
LevelsVG == {KW(20), KW(200), KW(202), KW(206), KW(210), KW(214), KW(220),
             KW(240), KW(600)}

\* the second row: as the others, above the capacity, negative, or zero
SecondRowsVG == {"level", "over", "negative", "zero"}

SecondRowVG(kind, level) ==
    CASE kind = "level" -> level
      [] kind = "over" -> CapacityVG + KW(100)
      [] kind = "negative" -> 0 - KW(10)
      [] kind = "zero" -> 0

\* the quantile channels: none, in order, crossed, 'p90' above the
\* capacity, 'p10' negative
QuantilesVG == {"none", "ordered", "crossed", "p90_over", "p10_negative"}

QuantileFrameVG(kind, level, n) ==
    IF kind = "none" THEN <<>>
    ELSE [col \in {"p10", "p50", "p90"} |-> [i \in 1..n |->
            CASE col = "p50" -> level
              [] col = "p10" -> IF kind = "crossed" THEN level + level \div 2
                                ELSE IF kind = "p10_negative" THEN 0 - KW(5)
                                ELSE level \div 2
              [] col = "p90" -> IF kind = "crossed" THEN level \div 2
                                ELSE IF kind = "p90_over" THEN CapacityVG + KW(200)
                                ELSE level + level \div 2]]

\* the last rows of 'prediction' that are missing
MaxNanVG == 2

ForecastVG(n, interval, level, second, quantiles, nans) ==
    [index |-> [i \in 1..n |-> (i - 1) * interval],
     frame |-> Merge(
        [col \in {"prediction"} |-> [i \in 1..n |->
            IF i = 2 THEN SecondRowVG(second, level)
            ELSE IF i > n - nans THEN NaN ELSE level]],
        QuantileFrameVG(quantiles, level, n))]

\* the weather: without 'solar_elevation', or with the sun at -10 or at 30
\* degrees in every row
SunVG == {"none", "night", "day"}

WeatherVG(sun, n) ==
    IF sun = "none" THEN [ghi |-> [i \in 1..n |-> 0]]
    ELSE [ghi |-> [i \in 1..n |-> 0],
          solar_elevation |-> [i \in 1..n |-> IF sun = "night" THEN 0 - 10 ELSE 30]]

\* the actuals: None, 200 kW in every row, or 0 in every row
ActualsVG == {"none", "measured", "zero"}

ActualDataVG(kind, n) ==
    IF kind = "none" THEN [given |-> FALSE]
    ELSE [given |-> TRUE,
          frame |-> [actual |-> [i \in 1..n |-> IF kind = "measured" THEN KW(200) ELSE 0]]]

\* the times at which the gate may run
ClockVG == {0, 1}

InitVG ==
    /\ IdleEarly /\ IdleEC /\ IdleWS /\ IdleDT /\ IdleLast
    /\ \E n \in RowCountsVG, interval \in IntervalsVG, level \in LevelsVG,
          second \in SecondRowsVG, quantiles \in QuantilesVG, nans \in 0..MaxNanVG,
          sun \in SunVG, actuals \in ActualsVG :
          vgArgs = [forecast |-> ForecastVG(n, interval, level, second, quantiles, nans),
                    weather_data |-> WeatherVG(sun, n),
                    config |-> [plant |-> [capacity_kw |-> CapacityVG]],
                    actual_data |-> ActualDataVG(actuals, n)]
    /\ vgOut = <<>>
    /\ vgPc = "call"

Validate ==
    /\ vgPc = "call"
    /\ \E now \in ClockVG :
          vgOut' = validate_forecast_comprehensive(vgArgs.forecast.frame,
                        vgArgs.weather_data, vgArgs.config, vgArgs.actual_data, now)
    /\ vgPc' = "returned"
    /\ UNCHANGED <<vgArgs, earlyVars, lastVars, ecVars, wsVars, dtVars>>

NextVG == Validate

SpecVG == InitVG /\ [][NextVG]_vars

-----------------------------------------------------------------------------
(* Degradation adjustment: performance_adjustment.py,                       *)
(* adjust_for_degradation.  Dates are counted in days; the rate and the     *)
(* factor are in ten-thousandths.  The factor is computed for whole years:  *)
(* the dates of the inputs below are multiples of four years apart.         *)

\* four years of 365.25 days (line 472), in days
FourYears == 1461

\* line 475: (1 - annual_degradation_rate) ** years_elapsed
RECURSIVE DegradationFactor(_, _)
DegradationFactor(annual_degradation_rate, years_elapsed) ==
    IF years_elapsed = 0 THEN 10000
    ELSE (DegradationFactor(annual_degradation_rate, years_elapsed - 1)
            * (10000 - annual_degradation_rate)) \div 10000

\* lines 481-482
DegradedColumns ==
    {"prediction", "p10", "p25", "p50", "p75", "p90", "ac_power_kw",
     "uncertainty_lower", "uncertainty_upper"}

\* lines 451-488; now is what pd.Timestamp.now() returns at line 471
adjust_for_degradation(forecast, installation_date, annual_degradation_rate, now) ==
    LET years_elapsed == ((now - installation_date) * 100) \div 36525
        degradation_factor == DegradationFactor(annual_degradation_rate, years_elapsed)
    IN  [col \in DOMAIN forecast |->
            IF col \in DegradedColumns
            THEN [i \in 1..Len(forecast[col]) |->
                    (forecast[col][i] * degradation_factor) \div 10000]
            ELSE forecast[col]]

-----------------------------------------------------------------------------
(* Two runs of one stage on the same declared inputs, with the clock        *)
(* advancing in between: SpecDT                                             *)

\* the times the clock advances
MaxTicksDT == 2

StagesDT == {"degradation", "gate", "weights", "enforcer"}

\* the declared inputs of a stage
InputsDT(stage) ==
    CASE stage = "degradation" ->
            {[forecast |-> [prediction |-> <<p>>, p90 |-> <<p + p \div 10>>, ghi |-> <<500>>],
              installation_date |-> date, annual_degradation_rate |-> 50] :
                p \in {0, KW(500), KW(1000)}, date \in {0, 0 - FourYears}}
      [] stage = "gate" ->
            {[forecast |-> ForecastVG(24, 60, level, second, "ordered", 0).frame,
              weather_data |-> WeatherVG("day", 24),
              config |-> [plant |-> [capacity_kw |-> CapacityVG]],
              actual_data |-> [given |-> FALSE]] :
                level \in {KW(200), KW(600)}, second \in SecondRowsVG}
      [] stage = "weights" -> WeatherOfRowsWS(1)
      [] stage = "enforcer" ->
            {[forecast |-> FrameCE({"prediction"}, <<v>>, <<>>, <<>>),
              plant_capacity |-> 4] : v \in ValuesCE(4)}

\* what a run of the stage at time now returns
RunStage(stage, input, now) ==
    CASE stage = "degradation" ->
            adjust_for_degradation(input.forecast, input.installation_date,
                                   input.annual_degradation_rate, now)
      [] stage = "gate" ->
            validate_forecast_comprehensive(input.forecast, input.weather_data,
                                            input.config, input.actual_data, now)
      [] stage = "weights" -> calculate_optimal_weights(input.weather, input.hours)
      [] stage = "enforcer" ->
            apply_capacity_constraints(input.forecast, input.plant_capacity)

InitDT ==
    /\ IdleEarly /\ IdleEC /\ IdleWS /\ IdleVG /\ IdleLast
    /\ dtClock = 0
    /\ \E stage \in StagesDT : \E input \in InputsDT(stage) :
          dtArgs = [stage |-> stage, input |-> input]
    /\ dtOuts = <<>>

\* time passes
Tick ==
    /\ dtClock < MaxTicksDT * FourYears
    /\ dtClock' = dtClock + FourYears
    /\ UNCHANGED <<dtArgs, dtOuts, earlyVars, lastVars, ecVars, wsVars, vgVars>>

\* one run of the stage on the inputs
Run ==
    /\ Len(dtOuts) < 2
    /\ dtOuts' = Append(dtOuts, RunStage(dtArgs.stage, dtArgs.input, dtClock))
    /\ UNCHANGED <<dtClock, dtArgs, earlyVars, lastVars, ecVars, wsVars, vgVars>>

NextDT == Tick \/ Run

SpecDT == InitDT /\ [][NextDT]_vars

-----------------------------------------------------------------------------
(* The Performance Calibrator on its own: SpecPC.  The series have one     *)
(* row, since every correction works row by row.                           *)

\* cloud cover at, between and beyond the breakpoints; temperatures in the
\* three bands of the derating
CloudCoverPC == {0, 10, 20, 35, 50, 65, 80, 95, 100}

TempsPC == {25, 38, 45}

\* the performance config: empty (the defaults apply), or with its own
\* ratios for the four cloud bands
PerformancePC ==
    {<<>>, [clear_sky |-> 990, partly_cloudy |-> 950, cloudy |-> 800, overcast |-> 600]}

\* the calibration config: empty, or with the monthly multipliers and the
\* global scalar; with or without the installation date and the
\* degradation rate of the plant
CalibrationPC ==
    {Merge(cal, age) :
        cal \in {<<>>,
                 [adjustment_factor |-> 1100,
                  seasonal_adjustments |-> [m \in 1..12 |-> IF m > 6 THEN 900 ELSE 1000]]},
        age \in {<<>>,
                 [installation_date |-> 0 - FourYears, annual_degradation_rate |-> 50]}}

ForecastsPC ==
    {[prediction |-> <<KW(1000)>>, p90 |-> <<KW(1200)>>, ghi |-> <<800>>],
     [prediction |-> <<KW(1000)>>, ac_power_kw |-> <<KW(1000)>>]}

InitPC ==
    /\ IdleEarly /\ IdleLate /\ IdleRS /\ IdleTE
    /\ \E forecast \in ForecastsPC, cloud_cover \in CloudCoverPC, temp_air \in TempsPC,
          month \in {1, 7}, performance \in PerformancePC, calibration \in CalibrationPC :
          pcArgs = [forecast |-> forecast,
                    weather_data |-> [cloud_cover |-> <<cloud_cover>>,
                                      temp_air |-> <<temp_air>>],
                    months |-> <<month>>,
                    performance_config |-> performance,
                    calibration_config |-> calibration,
                    now |-> 0]
    /\ pcOut = <<>>
    /\ pcPc = "call"

Calibrate ==
    /\ pcPc = "call"
    /\ pcOut' = apply_performance_adjustments(pcArgs.forecast, pcArgs.weather_data,
                    pcArgs.months, pcArgs.performance_config, pcArgs.calibration_config)
    /\ pcPc' = "returned"
    /\ UNCHANGED <<pcArgs, earlyVars, lateVars, rsVars, teVars>>

NextPC == Calibrate

SpecPC == InitPC /\ [][NextPC]_vars

-----------------------------------------------------------------------------
(* Claims about the Capacity Enforcer *)

NumericChannels(frame) == {col \in DOMAIN frame : frame[col].dtype # "bool"}

ValuesOf(frame) ==
    UNION {{frame[col].vals[i] : i \in 1..Len(frame[col].vals)} :
            col \in NumericChannels(frame)}

C2_Idempotent == (ceCalls = 2 /\ ~ceRaised) => ceOut = ceFirst

\* two calls were made on a series the first call had to change
C2_Witness ==
    /\ ceCalls = 2 /\ ~ceRaised
    /\ ceFirst # ceIn
    /\ (\E v \in ValuesOf(ceIn) : v > ceCap)

\* C3: the Capacity Enforcer never raises, whatever channels the series has.
C3_NeverRaises == ~ceRaised

-----------------------------------------------------------------------------
(* Claims about the Quantile Band Builder *)

\* C4: in every row of the returned series the quantile channels are in
\* non-decreasing order p10 <= p25 <= p50 <= p75 <= p90, whatever the raw
\* predictions and whichever of the earlier steps ran.
C4_QuantilesMonotone ==
    qbPc = "returned" =>
        LET cols == ExistingCols(qbOut) IN
        \A j \in 1..Len(cols), k \in 1..Len(cols) :
            j < k => \A i \in 1..qbArgs.rows : qbOut[cols[j]][i] <= qbOut[cols[k]][i]

\* all five levels were given, the raw p10 lies above the raw p25, and the
\* clips, the night mask and the physics ceiling all ran on a daytime row
C4_Witness ==
    /\ qbPc = "returned"
    /\ DOMAIN qbArgs.models = QuantileLevels
    /\ qbArgs.models[10][1] > qbArgs.models[25][1]
    /\ qbArgs.models[75][1] > qbArgs.models[90][1]
    /\ qbArgs.clip_negative /\ qbArgs.has_capacity
    /\ qbArgs.has_solar /\ qbArgs.has_ghi
    /\ qbArgs.elevation[1] > 0 /\ qbArgs.ghi[1] > 0
    /\ qbOut["p90"][1] > 0

\* C5: every row whose solar elevation is <= 0 is 0 on prediction, on every
\* quantile channel and on uncertainty_lower/uncertainty_upper of the
\* returned series.
C5_NightRowsZero ==
    (qbPc = "returned" /\ qbArgs.has_solar) =>
        \A i \in 1..qbArgs.rows :
            qbArgs.elevation[i] <= 0 => \A c \in DOMAIN qbOut : qbOut[c][i] = 0

\* a row with the sun exactly on the horizon and a positive raw prediction,
\* negative values left unclipped, no physics ceiling after the mask
C5_Witness ==
    /\ qbPc = "returned"
    /\ qbArgs.has_solar /\ ~qbArgs.has_ghi /\ ~qbArgs.clip_negative
    /\ qbArgs.elevation[1] = 0
    /\ \E l \in DOMAIN qbArgs.models : qbArgs.models[l][1] > 0
    /\ \E l \in DOMAIN qbArgs.models : qbArgs.models[l][1] < 0
    /\ {"prediction", "uncertainty_lower", "uncertainty_upper"} \subseteq DOMAIN qbOut

\* C9: in every row of the returned series prediction equals the p50 channel
\* (when a p50 level was given), uncertainty_lower the p10 channel and
\* uncertainty_upper the p90 channel.
C9_NamedColumnsFollowQuantiles ==
    qbPc = "returned" =>
        \A i \in 1..qbArgs.rows :
            /\ "p50" \in DOMAIN qbOut => qbOut["prediction"][i] = qbOut["p50"][i]
            /\ "p10" \in DOMAIN qbOut => qbOut["uncertainty_lower"][i] = qbOut["p10"][i]
            /\ "p90" \in DOMAIN qbOut => qbOut["uncertainty_upper"][i] = qbOut["p90"][i]

\* C10: the returned series carries all of p10, p25, p50, p75, p90, also
\* when the mapping given lacks one of the five levels.
C10_AllQuantileChannelsPresent ==
    qbPc = "returned" => \A l \in QuantileLevels : ColName(l) \in DOMAIN qbOut

-----------------------------------------------------------------------------
(* Claims about the pipeline *)

\* elevation < -0.833 degrees
BelowRefractionTolerance(elevation) == 1000 * elevation < 0 - 833

\* C6: in the series run_unified_forecast returns, for each forecast type,
\* every row whose solar elevation is below -0.833 degrees is 0 on
\* prediction and on every quantile channel.
C6_BelowHorizonRowsZero ==
    ufPc = "returned" =>
        \A i \in 1..Len(ufArgs.index) :
            BelowRefractionTolerance(ufArgs.solpos["elevation"][i]) =>
                \A c \in CalibratedColumns \cap DOMAIN ufOut.forecast :
                    ufOut.forecast[c][i] = 0

\* C8: in every row of the series run_unified_forecast returns the quantile
\* channels it carries are in the order p10 <= p25 <= p50 <= p75 <= p90,
\* for each forecast type, any set of loaded quantile models and any blend
\* weights.
C8_PipelineQuantilesMonotone ==
    ufPc = "returned" =>
        LET cols == ExistingCols(ufOut.forecast) IN
        \A j \in 1..Len(cols), k \in 1..Len(cols) :
            j < k => \A i \in 1..Len(ufArgs.index) :
                ufOut.forecast[cols[j]][i] <= ufOut.forecast[cols[k]][i]

-----------------------------------------------------------------------------
(* Claims about a forecast task *)

-----------------------------------------------------------------------------
(* Claims about the Ensemble Combiner *)

\* the sum of the supplied weights differs from 1 by more than 1e-6
SumOffTolerance(weights) ==
    /\ weights.given
    /\ LET total == Get(weights.map, "a", 0) + Get(weights.map, "b", 0)
                        + Get(weights.map, "c", 0)
       IN  (total - WeightOne) * 1000000 > WeightOne
            \/ (WeightOne - total) * 1000000 > WeightOne

\* C11 as stated: an empty source mapping yields EmptyEnsemble, and supplied
\* weights whose sum differs from 1 by more than 1e-6 yield InvalidWeights,
\* in every mode; weights given as None never yield InvalidWeights.
C11_EachErrorNamed ==
    ecPc # "call" =>
        /\ DOMAIN ecArgs.forecasts = {} =>
                ecOut.raised /\ ecOut.error = EmptyEnsemble
        /\ SumOffTolerance(ecArgs.weights) =>
                ecOut.raised /\ ecOut.error = InvalidWeights
        /\ ~ecArgs.weights.given =>
                ~(ecOut.raised /\ ecOut.error = InvalidWeights)

\* C11, amended: the Ensemble Combiner rejects caller errors and returns no
\* series: an empty source mapping yields EmptyEnsemble; for a non-empty
\* mapping, supplied weights whose sum differs from 1 by more than 1e-6
\* yield InvalidWeights, in every mode; weights given as None never yield
\* InvalidWeights.
C11_CallerErrorsRejected ==
    ecPc # "call" =>
        /\ DOMAIN ecArgs.forecasts = {} =>
                ecOut.raised /\ ecOut.error = EmptyEnsemble
        /\ (DOMAIN ecArgs.forecasts # {} /\ SumOffTolerance(ecArgs.weights)) =>
                ecOut.raised /\ ecOut.error = InvalidWeights
        /\ ~ecArgs.weights.given =>
                ~(ecOut.raised /\ ecOut.error = InvalidWeights)

\* a median of two sources on one index with weights 0.3 and 0.3, refused
\* for the weights
C11_Witness ==
    /\ ecPc = "raised" /\ ecOut.error = InvalidWeights
    /\ ecArgs.method = "median"
    /\ DOMAIN ecArgs.forecasts = {"a", "b"}
    /\ ecArgs.forecasts["a"].index = ecArgs.forecasts["b"].index
    /\ ecArgs.weights = [given |-> TRUE, map |-> [name \in {"a", "b"} |-> Weight(3)]]

\* some source has an index different from another's
SomeIndexDiffers(forecasts) ==
    \E m, n \in DOMAIN forecasts : forecasts[m].index # forecasts[n].index

\* C12 as stated: if any source's index differs from the others', the
\* Combiner fails with ShapeMismatch in every mode.
C12_MismatchIsShapeMismatch ==
    (ecPc # "call" /\ SomeIndexDiffers(ecArgs.forecasts)) =>
        ecOut.raised /\ ecOut.error = ShapeMismatch

\* C12, amended: if any source's index differs from the others', the
\* Combiner fails in every mode and returns no series: with InvalidWeights
\* if the supplied weights do not sum to 1, with ShapeMismatch otherwise.
C12_MismatchFails ==
    (ecPc # "call" /\ SomeIndexDiffers(ecArgs.forecasts)) =>
        /\ ecOut.raised
        /\ ecOut.error = IF SumOffTolerance(ecArgs.weights) THEN InvalidWeights
                          ELSE ShapeMismatch

\* a mean of an hourly and a two-hourly source with weights 0.3 and 0.7,
\* refused for the indexes
C12_Witness ==
    /\ ecPc = "raised" /\ ecOut.error = ShapeMismatch
    /\ ecArgs.method = "mean"
    /\ DOMAIN ecArgs.forecasts = {"a", "b"}
    /\ ecArgs.weights = [given |-> TRUE,
                         map |-> [name \in {"a", "b"} |->
                                    IF name = "a" THEN Weight(3) ELSE Weight(7)]]

\* the weight the call uses for a source, and the sources defining a column
UsedWeight(name) ==
    IF name \notin DOMAIN ecArgs.forecasts THEN 0
    ELSE IF ecArgs.weights.given THEN Get(ecArgs.weights.map, name, 0)
    ELSE WeightOne \div Cardinality(DOMAIN ecArgs.forecasts)

Defines(name, col) ==
    name \in DOMAIN ecArgs.forecasts /\ col \in DOMAIN ecArgs.forecasts[name].frame

\* the sum of the weights, and of weight x value in row i, over the sources
\* that define the column
WeightOver(col) ==
    (IF Defines("a", col) THEN UsedWeight("a") ELSE 0)
    + (IF Defines("b", col) THEN UsedWeight("b") ELSE 0)
    + (IF Defines("c", col) THEN UsedWeight("c") ELSE 0)

ProductOver(col, i) ==
    (IF Defines("a", col) THEN UsedWeight("a") * ecArgs.forecasts["a"].frame[col][i] ELSE 0)
    + (IF Defines("b", col) THEN UsedWeight("b") * ecArgs.forecasts["b"].frame[col][i] ELSE 0)
    + (IF Defines("c", col) THEN UsedWeight("c") * ecArgs.forecasts["c"].frame[col][i] ELSE 0)

ChannelsOfSources ==
    UNION {DOMAIN ecArgs.forecasts[name].frame : name \in DOMAIN ecArgs.forecasts}

\* every value of the output is the weight-normalized sum, rounded down
NormalizedSums ==
    \A col \in DOMAIN ecOut.frame : \A i \in 1..Len(ecOut.index) :
        /\ WeightOver(col) > 0
        /\ ecOut.frame[col][i] * WeightOver(col) <= ProductOver(col, i)
        /\ ProductOver(col, i) < (ecOut.frame[col][i] + 1) * WeightOver(col)

-----------------------------------------------------------------------------
(* Claims about the Weight Selector *)

\* mean cloud cover of the weather, compared with a percentage
MeanCloudBelow(pct) ==
    /\ "cloud_cover" \in DOMAIN wsArgs.weather
    /\ SeqSum(wsArgs.weather["cloud_cover"]) < pct * Len(wsArgs.weather["cloud_cover"])

MeanCloudAbove(pct) ==
    /\ "cloud_cover" \in DOMAIN wsArgs.weather
    /\ SeqSum(wsArgs.weather["cloud_cover"]) > pct * Len(wsArgs.weather["cloud_cover"])

SomeHourAtDawnOrDusk ==
    \E i \in DOMAIN wsArgs.hours : wsArgs.hours[i] \in {5, 6, 7, 18, 19, 20}

\* C14: the Weight Selector returns (0.3, 0.7), replaced by (0.5, 0.5) if the
\* mean cloud cover is below 20 or by (0.2, 0.8) if it is above 80; then, if
\* any timestamp's hour is in {5,6,7,18,19,20}, physics = min(physics + 0.2,
\* 0.8) and ml = 1 - physics.  The two weights always sum to 1 and pass the
\* Ensemble Combiner's weight check.
C14_WeightTable ==
    wsPc = "returned" =>
        LET start == IF MeanCloudBelow(20) THEN <<5, 5>>
                     ELSE IF MeanCloudAbove(80) THEN <<2, 8>> ELSE <<3, 7>>
            physics == IF SomeHourAtDawnOrDusk
                       THEN (IF start[1] + 2 < 8 THEN start[1] + 2 ELSE 8)
                       ELSE start[1]
            ml == IF SomeHourAtDawnOrDusk THEN 10 - physics ELSE start[2]
        IN  /\ wsOut.physics * 10 = physics * WeightOne
            /\ wsOut.ml * 10 = ml * WeightOne
            /\ wsOut.physics + wsOut.ml = WeightOne
            /\ ~WeightsRejected(wsOut)

\* clear weather with a row at 05h: the weights are (0.7, 0.3)
C14_Witness ==
    /\ wsPc = "returned"
    /\ wsArgs.weather = [c \in {"cloud_cover"} |-> <<0, 20>>]
    /\ wsArgs.hours = <<4, 5>>
    /\ wsOut = [physics |-> Weight(7), ml |-> Weight(3)]

-----------------------------------------------------------------------------
(* Claims about the plant configuration *)

\* C15 as stated: the plant configuration is read-only for the pipeline:
\* after run_unified_forecast returns or fails, the config mapping passed in,
\* with its nested 'performance' and 'plant' sections, has exactly the keys
\* and values it had before the call.
C15_ConfigReadOnly ==
    ufPc # "call" => ufOut.config = ufArgs.config

-----------------------------------------------------------------------------
(* Claims about the Validation Gate *)

\* the messages of the conditions that only warn
WarningOnlyMessages ==
    {"Night production detected", "Quantile ordering violations p10>p50",
     "Quantile ordering violations p50>p90", "Low capacity factor",
     "High capacity factor", "High ramp rate"}

Messages(list) == {list[i] : i \in DOMAIN list}

\* C17: in every report of the Validation Gate, validation_passed is true
\* iff the list of critical failures is empty, the summary status is PASS
\* iff validation_passed is true, and the warning-only conditions (night
\* production, quantile order, capacity factor, ramp rate) never make the
\* gate fail, however many of them fire.
C17_ReportConsistent ==
    vgPc = "returned" =>
        /\ vgOut.validation_passed <=> vgOut.critical_failures = <<>>
        /\ vgOut.summary.status = "PASS" <=> vgOut.validation_passed
        /\ vgOut.summary.status = "FAIL" <=> ~vgOut.validation_passed
        /\ Messages(vgOut.critical_failures) \cap WarningOnlyMessages = {}

\* a day of 600 kW with a row of 0, crossed quantiles and the sun below -5
\* degrees: five warnings of the four kinds, and the gate passes
C17_Witness ==
    /\ vgPc = "returned"
    /\ {"Night production detected", "Quantile ordering violations p10>p50",
        "Quantile ordering violations p50>p90", "High capacity factor",
        "High ramp rate"} \subseteq Messages(vgOut.warnings)
    /\ vgOut.validation_passed
    /\ vgOut.summary.status = "PASS"
    /\ vgOut.critical_failures = <<>>

\* the power channels of the series handed to the gate
PowerChannelsVG == DOMAIN vgArgs.forecast.frame

OutOfRange(col) ==
    \E i \in DOMAIN vgArgs.forecast.frame[col] :
        /\ vgArgs.forecast.frame[col][i] # NaN
        /\ \/ vgArgs.forecast.frame[col][i] > vgArgs.config.plant.capacity_kw
           \/ vgArgs.forecast.frame[col][i] < 0

\* C18 as stated: the Validation Gate fails with a critical failure whenever
\* any power channel of the series (prediction or a quantile channel)
\* exceeds the plant capacity or is negative in at least one row.
C18_AnyChannelOutOfRangeFails ==
    (vgPc = "returned" /\ \E col \in PowerChannelsVG : OutOfRange(col)) =>
        ~vgOut.validation_passed /\ vgOut.critical_failures # <<>>

\* the time the series covers, in minutes: its rows times their interval
HorizonMinutes ==
    LET index == vgArgs.forecast.index
    IN  Len(index) * (index[2] - index[1])

\* C19 as stated: the Validation Gate records a critical failure and fails
\* exactly when the horizon of the series is shorter than 24 hours,
\* whatever the sampling interval (hourly or 15-minute).
C19_ShortHorizonFails ==
    vgPc = "returned" =>
        /\ "Forecast too short" \in Messages(vgOut.critical_failures)
                <=> HorizonMinutes < 24 * 60
        /\ HorizonMinutes < 24 * 60 => ~vgOut.validation_passed

\* the rows that count for the accuracy error, and the sum of their
\* absolute errors; the actuals of a series are all equal
Scored ==
    {i \in DOMAIN vgArgs.forecast.frame["prediction"] :
        /\ vgArgs.actual_data.frame["actual"][i] # 0
        /\ vgArgs.forecast.frame["prediction"][i] # NaN}

RECURSIVE AbsErrorSum(_)
AbsErrorSum(rows) ==
    IF rows = {} THEN 0
    ELSE LET i == CHOOSE i \in rows : TRUE
             diff == vgArgs.actual_data.frame["actual"][i]
                        - vgArgs.forecast.frame["prediction"][i]
         IN  (IF diff < 0 THEN 0 - diff ELSE diff) + AbsErrorSum(rows \ {i})

\* the accuracy error is above pct percent
MapeAbove(pct) ==
    /\ Scored # {}
    /\ AbsErrorSum(Scored) * 100
          > pct * vgArgs.actual_data.frame["actual"][1] * Cardinality(Scored)

MapeVerdict(critical, warning) ==
    /\ "MAPE FAILURE" \in Messages(vgOut.critical_failures) <=> critical
    /\ "MAPE WARNING" \in Messages(vgOut.warnings) <=> warning
    /\ critical => ~vgOut.validation_passed

\* C20 as stated: with actuals, an accuracy error above 10% adds a critical
\* failure and fails the gate; one above 1% and at most 10% adds a warning
\* and no critical failure; one of at most 1% adds neither.
C20_WarnsAboveOnePercent ==
    (vgPc = "returned" /\ vgArgs.actual_data.given) =>
        IF MapeAbove(10) THEN MapeVerdict(TRUE, FALSE)
        ELSE IF MapeAbove(1) THEN MapeVerdict(FALSE, TRUE)
        ELSE MapeVerdict(FALSE, FALSE)

\* C20, amended: with actuals, an accuracy error above 10% adds a critical
\* failure and fails the gate; one above 5% and at most 10% adds a warning
\* and no critical failure; one of at most 5% adds neither.
C20_WarnsAboveFivePercent ==
    (vgPc = "returned" /\ vgArgs.actual_data.given) =>
        IF MapeAbove(10) THEN MapeVerdict(TRUE, FALSE)
        ELSE IF MapeAbove(5) THEN MapeVerdict(FALSE, TRUE)
        ELSE MapeVerdict(FALSE, FALSE)

\* a day of 214 kW against actuals of 200 kW: an error of 7%, a warning,
\* and the gate passes
C20_Witness ==
    /\ vgPc = "returned" /\ vgArgs.actual_data.given
    /\ MapeAbove(5) /\ ~MapeAbove(10)
    /\ \A i \in DOMAIN vgArgs.forecast.frame["prediction"] :
          vgArgs.forecast.frame["prediction"][i] = KW(214)
    /\ vgOut.metrics.mape_percent.sum = 700 * vgOut.metrics.mape_percent.count
    /\ "MAPE WARNING" \in Messages(vgOut.warnings)
    /\ vgOut.validation_passed

-----------------------------------------------------------------------------
(* Claims about two runs of a stage *)

\* C16 as stated: the stages are deterministic: two runs of a stage (the
\* Performance Calibrator's degradation adjustment, the Validation Gate, the
\* Weight Selector, the Capacity Enforcer) on identical declared inputs
\* return identical outputs, whenever the runs take place.
C16_RunsAgree ==
    Len(dtOuts) = 2 => dtOuts[1] = dtOuts[2]

-----------------------------------------------------------------------------
(* Claims about the Resolution Resampler *)

\* C21 as stated: resampling an hourly forecast to 15-minute intervals
\* preserves the total of the energy_mwh channel: the sum over the
\* resampled rows equals the sum over the hourly rows.
C21_EnergyTotalPreserved ==
    (rsPc = "returned" /\ rsArgs.kind = "forecast") =>
        SeqSum(rsOut.frame["energy_mwh"]) = SeqSum(rsArgs.series.frame["energy_mwh"])

\* the channels that carry irradiance, and those that carry power
RadiativeChannelsRS == {"ghi", "dni", "dhi", "gti"}

PowerChannelsRS == {"prediction", "energy_mwh"}

\* the output row lies between two hourly rows that are both 0 on the column
BetweenZeroRows(col, k) ==
    \E i \in 1..(Len(rsArgs.series.index) - 1) :
        /\ rsArgs.series.index[i] <= rsOut.index[k]
        /\ rsOut.index[k] <= rsArgs.series.index[i + 1]
        /\ rsArgs.series.frame[col][i] = 0
        /\ rsArgs.series.frame[col][i + 1] = 0

\* C22 as stated: after the interpolation, every output row whose irradiance
\* is below 1 is exactly 0 on every radiative channel, and no interpolated
\* row between two zero-production rows carries production on a power
\* channel.
C22_NightRowsExactlyZero ==
    rsPc = "returned" =>
        IF rsArgs.kind = "weather"
        THEN \A k \in DOMAIN rsOut.index :
                rsOut.frame["ghi"][k] < 1 =>
                    \A col \in RadiativeChannelsRS \cap DOMAIN rsOut.frame :
                        rsOut.frame[col][k] = 0
        ELSE \A k \in DOMAIN rsOut.index :
                \A col \in PowerChannelsRS \cap DOMAIN rsOut.frame :
                    BetweenZeroRows(col, k) => rsOut.frame[col][k] = 0

-----------------------------------------------------------------------------
(* Claims about the stages of the Transition Enhancer *)

\* the elevation of the row, and the factor in thousandths that the stage
\* applied to the power of the row
ElevationOfRow == teArgs.forecast["solar_elevation"][1]

AppliedTo(col, factor) ==
    teOut[col][1] = (teArgs.forecast[col][1] * factor) \div 1000

\* C23 as stated: the dawn/dusk stage multiplies power by a factor that is
\* 1.0 above 15 degrees, rises linearly from the configured factor at -6
\* degrees to 1.0 at 15 degrees, and equals the configured factor at and
\* below -6 degrees.
C23_DawnDuskFactor ==
    (tePc = "returned" /\ teArgs.stage = "dawn_dusk") =>
        LET configured == teArgs.dawn_dusk_factor
            factor == IF ElevationOfRow > 15 THEN 1000
                      ELSE IF ElevationOfRow <= 0 - 6 THEN configured
                      ELSE configured
                            + ((1000 - configured) * (ElevationOfRow + 6)) \div 21
        IN  AppliedTo("ac_power_kw", factor) /\ AppliedTo("dc_power_kw", factor)

\* the octants, clockwise from north
Octants ==
    <<"north", "northeast", "east", "southeast",
      "south", "southwest", "west", "northwest">>

ConfiguredAngle(octant) ==
    IF octant \in DOMAIN teArgs.horizon_angles THEN teArgs.horizon_angles[octant] ELSE 0

\* the interpolation between the two octants nearest to the azimuth, in
\* thousandths of a degree
InterpolatedHorizon(azimuth) ==
    LET first == azimuth \div 45 + 1
        second == (first % 8) + 1
        past == azimuth % 45
    IN  ((ConfiguredAngle(Octants[first]) * (45 - past)
            + ConfiguredAngle(Octants[second]) * past) * 1000) \div 45

\* C24 as stated: for every azimuth in [0, 360) the horizon elevation used
\* by horizon shading is the linear interpolation between the configured
\* angles of the two octants nearest to the azimuth, wrapping from
\* northwest back to north: power is 0 below it, full two degrees above it,
\* and scaled linearly in between.
C24_HorizonInterpolated ==
    (tePc = "returned" /\ teArgs.stage = "horizon") =>
        LET horizon == InterpolatedHorizon(teArgs.forecast["solar_azimuth"][1])
            factor == IF 1000 * ElevationOfRow < horizon THEN 0
                      ELSE IF 1000 * ElevationOfRow < horizon + 2000
                      THEN (1000 * ElevationOfRow - horizon) \div 2
                      ELSE 1000
        IN  AppliedTo("ac_power_kw", factor) /\ AppliedTo("dc_power_kw", factor)

\* C25 as stated: the refraction stage multiplies a row's power by a factor
\* that never exceeds 1.05: 1.05 at the horizon, falling linearly to 1.00
\* at 5 degrees, exactly 1.00 at and above 5 degrees; no row of any
\* elevation is boosted by more than 5%.
C25_BoostAtMostFivePercent ==
    (tePc = "returned" /\ teArgs.stage = "refraction") =>
        /\ teOut["ac_power_kw"][1] * 1000 <= teArgs.forecast["ac_power_kw"][1] * 1050
        /\ teOut["dc_power_kw"][1] * 1000 <= teArgs.forecast["dc_power_kw"][1] * 1050
        /\ ElevationOfRow >= 5 => AppliedTo("ac_power_kw", 1000)
        /\ (0 <= ElevationOfRow /\ ElevationOfRow < 5) =>
                AppliedTo("ac_power_kw", 1050 - 10 * ElevationOfRow)

\* the samples of the channel before and after the smoothing
PowerBefore == teArgs.forecast["ac_power_kw"]

PowerAfter == teOut["ac_power_kw"]

\* a sample whose change from its predecessor exceeds 10% of the maximum
Flagged(j) ==
    /\ j > 1
    /\ LET change == PowerBefore[j] - PowerBefore[j - 1]
       IN  10 * (IF change < 0 THEN 0 - change ELSE change)
                > CHOOSE m \in {PowerBefore[i] : i \in DOMAIN PowerBefore} :
                    \A i \in DOMAIN PowerBefore : PowerBefore[i] <= m

\* the samples within reach samples of a flagged one, if the series is long
\* enough to be smoothed at all
Region(reach) ==
    IF Len(PowerBefore) > 2 * reach
    THEN {j \in DOMAIN PowerBefore :
            \E f \in DOMAIN PowerBefore :
                Flagged(f) /\ j - f <= reach /\ f - j <= reach}
    ELSE {}

\* the samples of the region, in order, and their values after the filter
RegionSamples(region) ==
    SelectSeq([j \in DOMAIN PowerBefore |-> j], LAMBDA j : j \in region)

SmoothedOver(region) ==
    LET samples == RegionSamples(region)
        filtered == GaussianFilter([k \in DOMAIN samples |-> PowerBefore[samples[k]]])
    IN  /\ \A j \in DOMAIN PowerBefore \ region : PowerAfter[j] = PowerBefore[j]
        /\ \A k \in DOMAIN samples : PowerAfter[samples[k]] = filtered[k]
        /\ teOut["ghi"] = teArgs.forecast["ghi"]

\* C26 as stated: smoothing changes only the samples within (smoothing
\* window / sample interval) samples of a flagged sample; every other
\* sample keeps exactly its value.
C26_RegionByWindow ==
    (tePc = "returned" /\ teArgs.stage = "smoothing") =>
        \A j \in DOMAIN PowerBefore :
            (\A f \in DOMAIN PowerBefore :
                Flagged(f) =>
                    \/ (j - f) * teArgs.time_diff > teArgs.smooth_minutes
                    \/ (f - j) * teArgs.time_diff > teArgs.smooth_minutes)
                => PowerAfter[j] = PowerBefore[j]

\* C26, amended: smoothing changes only the samples within max(1, floor of
\* smoothing window / sample interval) samples of a sample whose change
\* from its predecessor exceeds 10% of the channel maximum, and only in a
\* series of more than twice that many samples; these samples get the
\* Gaussian filter of their own values, every other sample keeps exactly
\* its value, and when nothing is flagged the whole channel is unchanged.
C26_RegionByWholeSamples ==
    (tePc = "returned" /\ teArgs.stage = "smoothing") =>
        LET whole == teArgs.smooth_minutes \div teArgs.time_diff
            reach == IF whole < 1 THEN 1 ELSE whole
        IN  /\ SmoothedOver(Region(reach))
            /\ (\A f \in DOMAIN PowerBefore : ~Flagged(f)) => PowerAfter = PowerBefore

\* a quarter-hourly sunrise 0, 0, 0, 0, 100, 100 kW: the fifth sample is
\* flagged, the samples from the third on are smoothed, the first two keep
\* their values
C26_Witness ==
    /\ tePc = "returned" /\ teArgs.stage = "smoothing"
    /\ teArgs.time_diff = 15
    /\ PowerBefore = <<0, 0, 0, 0, KW(100), KW(100)>>
    /\ Region(2) = {3, 4, 5, 6}
    /\ PowerAfter[1] = 0 /\ PowerAfter[2] = 0
    /\ PowerAfter[4] > 0 /\ PowerAfter[5] < KW(100)

-----------------------------------------------------------------------------
(* Claims about the Performance Calibrator *)

\* the degradation factor of the plant's declared age applied to a frame:
\* a plant that declares no installation date is new
Degraded(frame) ==
    adjust_for_degradation(frame,
        Get(pcArgs.calibration_config, "installation_date", pcArgs.now),
        Get(pcArgs.calibration_config, "annual_degradation_rate", 0),
        pcArgs.now)

\* C27: the series the Performance Calibrator returns has gone through the
\* weather-performance ratio, the monthly multiplier, the global scalar,
\* the temperature derating and, last, the degradation factor
\* (1 - annual rate) ^ years since installation, each once and in this
\* order.
C27_DegradationAppliedLast ==
    pcPc = "returned" =>
        pcOut = Degraded(apply_performance_adjustments(pcArgs.forecast,
                    pcArgs.weather_data, pcArgs.months,
                    pcArgs.performance_config, pcArgs.calibration_config))

\* the piecewise-linear interpolation of the configured band ratios over
\* the nodes 0, 20, 50 and 80 of the cloud cover, constant from 80 on; a
\* band the config omits has its default
ConfiguredRatio(cloud_cover, performance_config) ==
    LET clear_sky == Get(performance_config, "clear_sky", 970)
        partly_cloudy == Get(performance_config, "partly_cloudy", 900)
        cloudy == Get(performance_config, "cloudy", 850)
        overcast == Get(performance_config, "overcast", 750)
    IN  IF cloud_cover < 20
        THEN clear_sky + ((partly_cloudy - clear_sky) * cloud_cover) \div 20
        ELSE IF cloud_cover < 50
        THEN partly_cloudy + ((cloudy - partly_cloudy) * (cloud_cover - 20)) \div 30
        ELSE IF cloud_cover < 80
        THEN cloudy + ((overcast - cloudy) * (cloud_cover - 50)) \div 30
        ELSE overcast

\* the corrections that follow the weather-performance ratio: the
\* calibrator on a weather frame without cloud cover skips the ratio
AfterWeatherRatio(frame) ==
    apply_performance_adjustments(frame,
        [col \in DOMAIN pcArgs.weather_data \ {"cloud_cover"} |-> pcArgs.weather_data[col]],
        pcArgs.months, pcArgs.performance_config, pcArgs.calibration_config)

\* C28: the weather-performance ratio applied to a row is the
\* piecewise-linear interpolation, at the row's cloud cover, of the band
\* ratios of the supplied performance config, the defaults standing in
\* only for the bands the config omits.
C28_RatioFromConfiguredBands ==
    pcPc = "returned" =>
        pcOut = AfterWeatherRatio(
                    ScaleColumns(pcArgs.forecast, PowerColumns,
                        <<ConfiguredRatio(pcArgs.weather_data["cloud_cover"][1],
                                          pcArgs.performance_config)>>))

-----------------------------------------------------------------------------
(* Claims about the physics candidate *)

\* the rows of the enhanced frame on which apply_physical_constraints or
\* the horizon shading force the power to zero: elevation below -0.833
\* degrees, irradiance below 1 W/m2, sun below the interpolated horizon
ForcedToZero(enhanced, config) ==
    {i \in 1..Len(enhanced["solar_elevation"]) :
        \/ 1000 * enhanced["solar_elevation"][i] < 0 - 833
        \/ enhanced["effective_irradiance"][i] < 1
        \/ /\ DOMAIN Get(config, "horizon_shading", <<>>) # {}
           /\ ShadingFactor(config["horizon_shading"], enhanced["solar_elevation"][i],
                            enhanced["solar_azimuth"][i]) = 0}

\* C29: in every row where the Transition Enhancer forces the power to
\* zero, the physics candidate built from the Enhancer's output has
\* prediction 0.
C29_ForcedRowsZeroInCandidate ==
    ufPc = "returned" =>
        \A i \in ForcedToZero(ufOut.enhanced, Get(ufOut.config, "performance", <<>>)) :
            create_physics_forecast(ufOut.enhanced)["prediction"][i] = 0

-----------------------------------------------------------------------------
(* Claims about the lifecycle of a forecast task *)

FinalStatuses == {"completed", "failed"}

\* the changes of status of the lifecycle
StatusSteps ==
    {<<"queued", "processing">>, <<"processing", "completed">>,
     <<"processing", "failed">>}

\* one step of the task's record
LifecycleStep ==
    /\ tkTask'.status # tkTask.status => <<tkTask.status, tkTask'.status>> \in StatusSteps
    /\ tkTask.status \in FinalStatuses => tkTask' = tkTask
    /\ tkTask'.progress >= tkTask.progress

\* C30: a forecast task goes from queued to processing to completed or
\* failed: when process_forecast_task has ended, whichever step raised, the
\* status is completed or failed and not processing; a completed or failed
\* task is never updated again; the progress never decreases; and the
\* progress is 100 whenever the status is completed.
C30_TaskLifecycle ==
    /\ [](tkPc = "done" => tkTask.status \in FinalStatuses)
    /\ [](tkPc # "done" => tkTask.status \in {"queued", "processing"})
    /\ [](tkTask.status = "completed" => tkTask.progress = 100)
    /\ [][LifecycleStep]_vars

\* the pipeline raised in the fifth step: the task ended as failed, with
\* the progress of the last step that succeeded
C30_Witness ==
    /\ tkPc = "done"
    /\ tkTask.status = "failed"
    /\ tkTask.error = "ValueError: pipeline"
    /\ tkTask.progress = 60

=============================================================================
